---------------------------- MODULE Spec2Model ----------------------------
(***************************************************************************)
(* Model of the geotechnical reconciliation core:                          *)
(*   core/param_extractor.py  (ramer_douglas_peucker, extract_parameters,  *)
(*                             _evaluate_status, compare_design_vs_asbuilt)*)
(*   ui/step3_analysis.py     (_process_single)                            *)
(*   api/main.py              (process_all)                                *)
(*                                                                         *)
(* Numbers.  The program computes on floats; the model computes on         *)
(* integers of a fixed lattice:                                            *)
(*   lengths (distances, elevations, heights, widths) in HALF METRES,      *)
(*   angles in CENTI-DEGREES.                                              *)
(* Every threshold of the source is the source's number in these units     *)
(* (8.0 m = 16, 15.0 m = 30, 40.0 deg = 4000, ...).  Products such as      *)
(* limit * 1.5 or min_berm * 0.8 are compared by cross-multiplication.     *)
(***************************************************************************)
EXTENDS Integers, Sequences, FiniteSets, TLC

VARIABLES
    pc,             \* position of the run: "start", then the caller that ran
    params_design,  \* ExtractionResult of the design surface (input)
    params_topo,    \* ExtractionResult of the as-built surface (input)
    tolerances,     \* tolerance configuration (input)
    row_col,        \* (row_ind, col_ind) of linear_sum_assignment, as pairs
    comparisons,    \* the list of comparison records that was returned
    ex_pc,          \* position of an extract_parameters call
    ex_points,      \* its profile: the (distance, elevation) points
    ex_config,      \* its resolution, thresholds and max_berm_width
    ex_result,      \* the ExtractionResult it returned
    rdp_pc,         \* position of a ramer_douglas_peucker call
    rdp_points,     \* its polyline
    rdp_eps,        \* its epsilon, in units of 0.05 m
    rdp_out,        \* the polyline it returned
    rdp_kept,       \* the positions in rdp_points of the vertices it kept
    rdp_again,      \* what it returned when called on rdp_out
    sections,                   \* the section lines of the session, each with
                                \* the profiles the two meshes cut along it
    store_tolerances,           \* api: store.tolerances
    store_settings,             \* api: store.settings
    store_params_design,        \* api: store.params_design
    store_params_topo,          \* api: store.params_topo
    store_comparison_results,   \* api: store.comparison_results
    api_pc,                     \* api: outcome of the last POST /api/process
    requests_left,              \* api: the number of requests the session
                                \* is still followed for, None for any
    reconciled_edit,            \* api: the section and the number of benches
                                \* the last PUT /api/reconciled since then
                                \* has edited
    ui_params_d,                \* ui: results['params_design']
    ui_params_t,                \* ui: results['params_topo']
    ui_comparisons,             \* ui: results['comparisons']
    ui_pc,                      \* ui: position of the analysis step
    ui_profiles_d,              \* ui: results['profiles_design']
    ui_profiles_t,              \* ui: results['profiles_topo']
    ui_futures,                 \* ui: the tasks of executor.map, one for each
                                \* section: pending, running or done with
                                \* the tuple _process_single returned
    ui_finished,                \* ui: the tasks in the order they finished
    ui_order,                   \* ui: the tasks in the order the loop over
                                \* executor.map received their results
    area_pc,                    \* position of a call of
                                \* calculate_area_between_profiles
    profile_ref,                \* its reference profile, or None
    profile_eval,               \* its evaluated profile, or None
    area_result                 \* the tuple it returned

cmpVars == <<pc, params_design, params_topo, tolerances, row_col, comparisons>>

rdpVars == <<rdp_pc, rdp_points, rdp_eps, rdp_out, rdp_kept, rdp_again>>

extVars == <<ex_pc, ex_points, ex_config, ex_result, rdpVars>>

apiVars ==
    <<store_tolerances, store_settings, store_params_design,
      store_params_topo, store_comparison_results, api_pc, reconciled_edit,
      requests_left>>

parVars ==
    <<ui_profiles_d, ui_profiles_t, ui_futures, ui_finished, ui_order>>

areaVars == <<area_pc, profile_ref, profile_eval, area_result>>

uiVars ==
    <<ui_params_d, ui_params_t, ui_comparisons, ui_pc, parVars, areaVars>>

pipeVars == <<sections, apiVars, uiVars>>

vars == <<cmpVars, extVars, pipeVars>>

-----------------------------------------------------------------------------
(* Generic helpers                                                         *)

Abs(x) == IF x < 0 THEN -x ELSE x

Min2(a, b) == IF a <= b THEN a ELSE b

\* Python's None and a present value, for the nullable fields of a record.
None == << >>

Some(v) == <<v>>

RECURSIVE SumSeq(_)
SumSeq(s) == IF s = << >> THEN 0 ELSE Head(s) + SumSeq(Tail(s))

\* round-half-to-even of the non-negative rational n / d (d > 0)
RoundHalfEven(n, d) ==
    LET q == n \div d
        r == n % d
    IN  IF 2 * r < d THEN q
        ELSE IF 2 * r > d THEN q + 1
        ELSE IF q % 2 = 0 THEN q ELSE q + 1

\* round(x, 2) of a length: lengths are multiples of 0.5, which two decimals
\* represent exactly, so the rounded value is the length itself.
round2(x) == x

\* round(a, 1) of an angle: centi-degrees rounded to a multiple of 10.
round1(a) ==
    IF a < 0 THEN -(10 * RoundHalfEven(-a, 10)) ELSE 10 * RoundHalfEven(a, 10)

-----------------------------------------------------------------------------
(* Data model                                                              *)

BenchParams(n, ce, cd, te, td, h, a, w, r) ==
    [bench_number |-> n, crest_elevation |-> ce, crest_distance |-> cd,
     toe_elevation |-> te, toe_distance |-> td, bench_height |-> h,
     face_angle |-> a, berm_width |-> w, is_ramp |-> r]

ExtractionResult(name, sec, bs, ira, oa) ==
    [section_name |-> name, sector |-> sec, benches |-> bs,
     inter_ramp_angle |-> ira, overall_angle |-> oa]

-----------------------------------------------------------------------------
(* Arithmetic of extract_parameters on the lattice                         *)

RECURSIVE IsqrtBetween(_, _, _)
IsqrtBetween(n, lo, hi) ==
    IF hi - lo <= 1 THEN lo
    ELSE LET mid == (lo + hi) \div 2
         IN  IF mid * mid <= n THEN IsqrtBetween(n, mid, hi)
             ELSE IsqrtBetween(n, lo, mid)

\* floor of the square root (np.sqrt on the lattice)
Isqrt(n) == IsqrtBetween(n, 0, IF n < 46340 THEN n + 1 ELSE 46340)

\* tan(k degrees) * 10^4 for k = 0..45
TanTable ==
    << 0, 175, 349, 524, 699, 875, 1051, 1228, 1405, 1584, 1763, 1944, 2126,
       2309, 2493, 2679, 2867, 3057, 3249, 3443, 3640, 3839, 4040, 4245, 4452,
       4663, 4877, 5095, 5317, 5543, 5774, 6009, 6249, 6494, 6745, 7002, 7265,
       7536, 7813, 8098, 8391, 8693, 9004, 9325, 9657, 10000 >>

\* atan(y / x) in centi-degrees for 0 < y < x: the degree whose tangent
\* brackets y / x, and a linear interpolation inside it (within 0.01 deg)
AtanLow(y, x) ==
    LET k == CHOOSE j \in 0..44 :
                /\ TanTable[j + 1] * x <= y * 10000
                /\ TanTable[j + 2] * x > y * 10000
    IN  100 * k + ((y * 10000 - TanTable[k + 1] * x) * 100)
                     \div ((TanTable[k + 2] - TanTable[k + 1]) * x)

\* np.degrees(np.arctan2(y, x)) for y >= 0 and x >= 0, in centi-degrees
\* (arctan2(0, 0) is 0)
AtanDeg(y, x) ==
    IF y = 0 THEN 0
    ELSE IF x = 0 THEN 9000
    ELSE IF y = x THEN 4500
    ELSE IF y < x THEN AtanLow(y, x)
    ELSE 9000 - AtanLow(x, y)

\* np.abs(np.degrees(np.arctan2(dy, dx))): 0..180 degrees
abs_angle(dy, dx) ==
    IF dx >= 0 THEN AtanDeg(Abs(dy), dx) ELSE 18000 - AtanDeg(Abs(dy), -dx)

-----------------------------------------------------------------------------
(* ramer_douglas_peucker                                                   *)
(* A point is <<distance, elevation>>.  epsilon is held in units of 0.05 m *)
(* (eps20), so a lattice distance x (half metres) exceeds it iff           *)
(* 10 x > eps20.                                                           *)

\* the quantity that orders dists: |cross| for a proper chord, the squared
\* distance to the start point for a zero-length chord
rdp_measure(points, i) ==
    LET start_pt == points[1]
        end_pt == points[Len(points)]
        lx == end_pt[1] - start_pt[1]
        ly == end_pt[2] - start_pt[2]
        px == points[i][1] - start_pt[1]
        py == points[i][2] - start_pt[2]
    IN  IF lx * lx + ly * ly = 0 THEN px * px + py * py
        ELSE Abs(lx * py - ly * px)

Mut_rdp_index(points) == 2

\* np.argmax(dists) + 1: the first interior point of maximal distance
rdp_index(points) ==
    CHOOSE i \in 2..(Len(points) - 1) :
        /\ \A j \in 2..(Len(points) - 1) :
              rdp_measure(points, j) <= rdp_measure(points, i)
        /\ \A j \in 2..(i - 1) : rdp_measure(points, j) < rdp_measure(points, i)

Mut_rdp_exceeds_always(points, i, eps20) == TRUE

Mut_rdp_exceeds_long(points, i, eps20) == Len(points) > 3

\* dmax > epsilon
rdp_exceeds(points, i, eps20) ==
    LET start_pt == points[1]
        end_pt == points[Len(points)]
        lx == end_pt[1] - start_pt[1]
        ly == end_pt[2] - start_pt[2]
        line_len_sq == lx * lx + ly * ly
        m == rdp_measure(points, i)
    IN  IF line_len_sq = 0 THEN 100 * m > eps20 * eps20
        ELSE m * m > (eps20 * eps20 * line_len_sq) \div 100

Mut_ramer_douglas_peucker(points, eps20) ==
    <<points[1], points[Len(points)]>>

RECURSIVE ramer_douglas_peucker(_, _)
ramer_douglas_peucker(points, eps20) ==
    IF Len(points) < 3 THEN points
    ELSE LET index == rdp_index(points)
         IN  IF rdp_exceeds(points, index, eps20)
             THEN LET rec_results1 ==
                        ramer_douglas_peucker(SubSeq(points, 1, index), eps20)
                      rec_results2 ==
                        ramer_douglas_peucker(
                            SubSeq(points, index, Len(points)), eps20)
                  IN  SubSeq(rec_results1, 1, Len(rec_results1) - 1)
                        \o rec_results2
             ELSE <<points[1], points[Len(points)]>>

\* the same recursion, returning the positions of the kept vertices in
\* points instead of the vertices
RECURSIVE rdp_kept_indices(_, _)
rdp_kept_indices(points, eps20) ==
    IF Len(points) < 3 THEN [i \in 1..Len(points) |-> i]
    ELSE LET index == rdp_index(points)
         IN  IF rdp_exceeds(points, index, eps20)
             THEN LET rec_results1 ==
                        rdp_kept_indices(SubSeq(points, 1, index), eps20)
                      rec_results2 ==
                        rdp_kept_indices(
                            SubSeq(points, index, Len(points)), eps20)
                  IN  SubSeq(rec_results1, 1, Len(rec_results1) - 1)
                        \o [k \in 1..Len(rec_results2) |->
                                rec_results2[k] + index - 1]
             ELSE <<1, Len(points)>>

-----------------------------------------------------------------------------
(* extract_parameters: slope classification and crest/toe detection        *)
(* The configuration is [resolution, face_threshold, berm_threshold,       *)
(* max_berm_width]: resolution in units of 0.1 m, the thresholds in        *)
(* centi-degrees, max_berm_width in half metres.                           *)

\* epsilon = max(resolution / 2.0, 0.05), in units of 0.05 m
epsilon20(cfg) == IF cfg.resolution > 1 THEN cfg.resolution ELSE 1

seg_dx(simplified, i) == simplified[i + 1][1] - simplified[i][1]

seg_dy(simplified, i) == simplified[i + 1][2] - simplified[i][2]

seg_len_sq(simplified, i) ==
    seg_dx(simplified, i) * seg_dx(simplified, i)
        + seg_dy(simplified, i) * seg_dy(simplified, i)

\* seg_lengths > 1e-4: on the lattice, a segment of two distinct points
valid_seg(simplified, i) == seg_len_sq(simplified, i) > 0

\* seg_lengths, in units of 0.05 m, rounded down
seg_lengths(simplified) ==
    [i \in 1..(Len(simplified) - 1) |-> Isqrt(100 * seg_len_sq(simplified, i))]

\* angles: 0 for an invalid segment
segment_angles(simplified) ==
    [i \in 1..(Len(simplified) - 1) |->
        IF valid_seg(simplified, i)
        THEN abs_angle(seg_dy(simplified, i), seg_dx(simplified, i))
        ELSE 0]

\* smoothed_angles >= face_threshold, where smoothed_angles is
\* uniform_filter1d(angles, size=3, mode='nearest') for three segments or
\* more (the mean of a segment and its two neighbours, the ends repeated) and
\* the angles themselves otherwise.  The mean is compared as a sum.
is_steep(angles, face_threshold) ==
    LET n == Len(angles)
        at(i) == angles[IF i < 1 THEN 1 ELSE IF i > n THEN n ELSE i]
    IN  [i \in 1..n |->
            IF n >= 3
            THEN at(i - 1) + at(i) + at(i + 1) >= 3 * face_threshold
            ELSE angles[i] >= face_threshold]

\* crests: vertex i at every rising edge, and vertex 0 (here 1) when the
\* first segment is steep.  Vertices are numbered from 1: segment i joins
\* vertex i and vertex i + 1.
crest_vertices(steep) ==
    LET n == Len(steep)
        rising == SelectSeq([i \in 1..(n - 1) |-> i + 1],
                            LAMBDA i : steep[i] /\ ~steep[i - 1])
    IN  IF n > 0 /\ steep[1] THEN <<1>> \o rising ELSE rising

\* toes: vertex i at every falling edge, and the last vertex when the last
\* segment is steep
toe_vertices(steep) ==
    LET n == Len(steep)
        falling == SelectSeq([i \in 1..(n - 1) |-> i + 1],
                             LAMBDA i : ~steep[i] /\ steep[i - 1])
    IN  IF n > 0 /\ steep[n] THEN Append(falling, n + 1) ELSE falling

-----------------------------------------------------------------------------
(* extract_parameters: benches from crest/toe pairs                        *)

\* minimum bench height 2.0 m
min_bench_height == 4

\* minimum face length 1.5 m
min_face_length == 3

Mut_advance_toe(toes, toe_idx, c_vertex) ==
    IF toe_idx < Len(toes) THEN toe_idx + 1 ELSE toe_idx

\* while toe_idx < len(toes) and toes[toe_idx] <= c_vertex: toe_idx += 1
RECURSIVE advance_toe(_, _, _)
advance_toe(toes, toe_idx, c_vertex) ==
    IF toe_idx <= Len(toes) /\ toes[toe_idx] <= c_vertex
    THEN advance_toe(toes, toe_idx + 1, c_vertex)
    ELSE toe_idx

RECURSIVE WeightedSum(_, _, _)
WeightedSum(S, val, wt) ==
    IF S = {} THEN 0
    ELSE LET i == CHOOSE j \in S : TRUE
         IN  val[i] * wt[i] + WeightedSum(S \ {i}, val, wt)

RECURSIVE SumOver(_, _)
SumOver(S, wt) ==
    IF S = {} THEN 0
    ELSE LET i == CHOOSE j \in S : TRUE
         IN  wt[i] + SumOver(S \ {i}, wt)

\* the face angle of the segments between the two vertices: the length
\* weighted mean of those steeper than face_threshold - 10 when their length
\* exceeds 0.1 m, else of all of them, else face_threshold
weighted_angle(angles, lengths, c_vertex, t_vertex, face_threshold) ==
    LET seg_start == Min2(c_vertex, t_vertex)
        seg_end == IF c_vertex > t_vertex THEN c_vertex ELSE t_vertex
        local == seg_start..(seg_end - 1)
        steep_mask == {i \in local : angles[i] > face_threshold - 1000}
    IN  IF seg_end > seg_start
        THEN IF steep_mask # {} /\ SumOver(steep_mask, lengths) > 2
             THEN WeightedSum(steep_mask, angles, lengths)
                      \div SumOver(steep_mask, lengths)
             ELSE IF SumOver(local, lengths) > 0
             THEN WeightedSum(local, angles, lengths) \div SumOver(local, lengths)
             ELSE face_threshold
        ELSE face_threshold

\* the candidates of the loop of lines 170-241 from (crest_idx, toe_idx) on:
\* the two vertices of each, and whether line 197 or line 204 rejected it
RECURSIVE candidate_pairs(_, _, _, _, _, _)
candidate_pairs(simplified, crests, toes, crest_idx, toe_idx, pairs) ==
    IF ~(crest_idx <= Len(crests) /\ toe_idx <= Len(toes)) THEN pairs
    ELSE
      LET c_vertex == crests[crest_idx]
          t_idx == advance_toe(toes, toe_idx, c_vertex)
      IN  IF t_idx > Len(toes) THEN pairs
          ELSE
            LET t_vertex == toes[t_idx]
                crest_pt == simplified[c_vertex]
                toe_pt == simplified[t_vertex]
                bench_height == Abs(crest_pt[2] - toe_pt[2])
                face_len_sq ==
                    (crest_pt[1] - toe_pt[1]) * (crest_pt[1] - toe_pt[1])
                      + (crest_pt[2] - toe_pt[2]) * (crest_pt[2] - toe_pt[2])
                rejected ==
                    \/ bench_height < min_bench_height
                    \/ face_len_sq < min_face_length * min_face_length
            IN  candidate_pairs(simplified, crests, toes,
                    crest_idx + 1, t_idx + 1,
                    Append(pairs, [crest_idx |-> crest_idx, toe_idx |-> t_idx,
                                   c_vertex |-> c_vertex, t_vertex |-> t_vertex,
                                   rejected |-> rejected]))

Mut_crest_is_higher(crest_pt, toe_pt) == TRUE

\* if crest_pt[1] > toe_pt[1]: the crest vertex is the higher endpoint
crest_is_higher(crest_pt, toe_pt) == crest_pt[2] > toe_pt[2]

\* the loop of lines 170-241 from (crest_idx, toe_idx) on
RECURSIVE build_benches(_, _, _, _, _, _, _)
build_benches(simplified, crests, toes, face_threshold, crest_idx, toe_idx, benches) ==
    IF ~(crest_idx <= Len(crests) /\ toe_idx <= Len(toes)) THEN benches
    ELSE
      LET c_vertex == crests[crest_idx]
          t_idx == advance_toe(toes, toe_idx, c_vertex)
      IN  IF t_idx > Len(toes) THEN benches
          ELSE
            LET t_vertex == toes[t_idx]
                crest_pt == simplified[c_vertex]
                toe_pt == simplified[t_vertex]
                crest == IF crest_is_higher(crest_pt, toe_pt)
                         THEN crest_pt ELSE toe_pt
                toe == IF crest_is_higher(crest_pt, toe_pt)
                       THEN toe_pt ELSE crest_pt
                bench_height == Abs(crest[2] - toe[2])
                face_len_sq == (crest[1] - toe[1]) * (crest[1] - toe[1])
                                 + (crest[2] - toe[2]) * (crest[2] - toe[2])
            IN  IF bench_height < min_bench_height
                THEN build_benches(simplified, crests, toes, face_threshold,
                                   crest_idx + 1, t_idx + 1, benches)
                ELSE IF face_len_sq < min_face_length * min_face_length
                THEN build_benches(simplified, crests, toes, face_threshold,
                                   crest_idx + 1, t_idx + 1, benches)
                ELSE build_benches(simplified, crests, toes, face_threshold,
                        crest_idx + 1, t_idx + 1,
                        Append(benches,
                            BenchParams(Len(benches) + 1, crest[2], crest[1],
                                toe[2], toe[1], bench_height,
                                weighted_angle(segment_angles(simplified),
                                    seg_lengths(simplified), c_vertex, t_vertex,
                                    face_threshold),
                                0, FALSE)))

-----------------------------------------------------------------------------
(* extract_parameters: post-processing                                     *)

\* b.bench_number = idx + 1
Renumber(bs) == [i \in 1..Len(bs) |-> [bs[i] EXCEPT !.bench_number = i]]

\* merge criterion: crest gap below 2.0 m and one of the heights below 3.0 m
should_merge(prev, curr) ==
    /\ Abs(prev.toe_elevation - curr.crest_elevation) < 4
    /\ (prev.bench_height < 6 \/ curr.bench_height < 6)

\* the merged bench with the toe of its first constituent
Mut_merged_bench(prev, curr) ==
    BenchParams(prev.bench_number, prev.crest_elevation, prev.crest_distance,
        prev.toe_elevation, prev.toe_distance,
        Abs(prev.crest_elevation - prev.toe_elevation),
        (prev.face_angle * prev.bench_height
             + curr.face_angle * curr.bench_height)
            \div (prev.bench_height + curr.bench_height),
        0, FALSE)

\* lines 258-268: the bench that replaces merged[-1]
merged_bench(prev, curr) ==
    LET top == IF prev.crest_elevation >= curr.crest_elevation
               THEN prev.crest_elevation ELSE curr.crest_elevation
        bottom == IF prev.toe_elevation <= curr.toe_elevation
                  THEN prev.toe_elevation ELSE curr.toe_elevation
    IN  BenchParams(prev.bench_number, top,
            IF prev.crest_elevation >= curr.crest_elevation
            THEN prev.crest_distance ELSE curr.crest_distance,
            bottom,
            IF prev.toe_elevation <= curr.toe_elevation
            THEN prev.toe_distance ELSE curr.toe_distance,
            Abs(top - bottom),
            (prev.face_angle * prev.bench_height
                 + curr.face_angle * curr.bench_height)
                \div (prev.bench_height + curr.bench_height),
            0, FALSE)

\* the loop of lines 248-270 over benches[i..]
RECURSIVE merge_from(_, _, _)
merge_from(merged, benches, i) ==
    IF i > Len(benches) THEN merged
    ELSE LET prev == merged[Len(merged)]
             curr == benches[i]
         IN  IF should_merge(prev, curr)
             THEN merge_from([merged EXCEPT ![Len(merged)] = merged_bench(prev, curr)],
                             benches, i + 1)
             ELSE merge_from(Append(merged, curr), benches, i + 1)

\* the same loop, keeping for every bench of merged the positions in benches
\* of those it was merged from
RECURSIVE merge_groups(_, _, _, _)
merge_groups(groups, merged, benches, i) ==
    IF i > Len(benches) THEN groups
    ELSE LET prev == merged[Len(merged)]
             curr == benches[i]
         IN  IF should_merge(prev, curr)
             THEN merge_groups(
                      [groups EXCEPT ![Len(groups)] = @ \cup {i}],
                      [merged EXCEPT ![Len(merged)] = merged_bench(prev, curr)],
                      benches, i + 1)
             ELSE merge_groups(Append(groups, {i}), Append(merged, curr),
                               benches, i + 1)

\* 6a: merge micro-benches and renumber
merge_micro_benches(benches) ==
    IF Len(benches) > 1
    THEN Renumber(merge_from(<<benches[1]>>, benches, 2))
    ELSE benches

RECURSIVE InsertByCrest(_, _)
InsertByCrest(sorted, b) ==
    IF sorted = << >> THEN <<b>>
    ELSE IF Head(sorted).crest_elevation >= b.crest_elevation
         THEN <<Head(sorted)>> \o InsertByCrest(Tail(sorted), b)
         ELSE <<b>> \o sorted

Mut_sort_by_crest(benches) == benches

\* 6b: benches.sort(key=crest_elevation, reverse=True), a stable sort, and
\* renumber
RECURSIVE sort_by_crest(_)
sort_by_crest(benches) ==
    IF benches = << >> THEN << >>
    ELSE InsertByCrest(sort_by_crest(SubSeq(benches, 1, Len(benches) - 1)),
                       benches[Len(benches)])

\* Ramp Detection: 15.0 <= width <= 42.0
in_ramp_range(width) == 30 <= width /\ width <= 84

\* lines 282-291: berm width to the next bench, and the ramp flag
berm_widths(benches) ==
    [i \in 1..Len(benches) |->
        IF i < Len(benches)
        THEN LET h_dist == Abs(benches[i].toe_distance
                                 - benches[i + 1].crest_distance)
             IN  [benches[i] EXCEPT
                    !.berm_width = h_dist,
                    !.is_ramp = IF in_ramp_range(h_dist) THEN TRUE ELSE @]
        ELSE benches[i]]

\* the first group instead of the longest
Mut_filter_large_berms(benches, max_berm_width) ==
    IF max_berm_width > 0 /\ Len(benches) > 1
    THEN LET n == Len(benches)
             cuts == {i \in 1..(n - 1) : benches[i].berm_width > max_berm_width}
             first_end == IF cuts = {} THEN n
                          ELSE CHOOSE c \in cuts : \A d \in cuts : c <= d
         IN  Renumber([i \in 1..first_end |->
                         IF i \in cuts THEN [benches[i] EXCEPT !.berm_width = 0]
                         ELSE benches[i]])
    ELSE benches

\* lines 293-308: break the list at every berm wider than max_berm_width
\* (zeroing it) and keep the first longest group
filter_large_berms(benches, max_berm_width) ==
    IF max_berm_width > 0 /\ Len(benches) > 1
    THEN LET n == Len(benches)
             cuts == {i \in 1..(n - 1) : benches[i].berm_width > max_berm_width}
             zeroed == [i \in 1..n |->
                          IF i \in cuts THEN [benches[i] EXCEPT !.berm_width = 0]
                          ELSE benches[i]]
             starts == {1} \cup {i + 1 : i \in cuts}
             end_of(st) == IF \E c \in cuts : c >= st
                          THEN CHOOSE c \in cuts :
                                  c >= st /\ \A d \in cuts : d >= st => c <= d
                          ELSE n
             size(st) == end_of(st) - st + 1
             best == CHOOSE st \in starts :
                        /\ \A o \in starts : size(o) <= size(st)
                        /\ \A o \in starts : o < st => size(o) < size(st)
         IN  Renumber(SubSeq(zeroed, best, end_of(best)))
    ELSE benches

\* lines 310-332: the flat run of the raw profile after the last toe
trailing_berm(benches, points, berm_threshold) ==
    IF Len(benches) > 0
    THEN LET last_bench == benches[Len(benches)]
             forward == points[Len(points)][1] > points[1][1]
             after == SelectSeq(points,
                        LAMBDA pt : IF forward
                                    THEN pt[1] > last_bench.toe_distance
                                    ELSE pt[1] < last_bench.toe_distance)
             width == Abs(after[Len(after)][1] - after[1][1])
             slope_deg == AtanDeg(Abs(after[Len(after)][2] - after[1][2]), width)
         IN  IF Len(after) > 1 /\ slope_deg <= berm_threshold
             THEN [benches EXCEPT ![Len(benches)] =
                     [last_bench EXCEPT
                        !.berm_width = width,
                        !.is_ramp = IF in_ramp_range(width) THEN TRUE ELSE @]]
             ELSE benches
    ELSE benches

Mut_overall_angle_of(benches) ==
    IF Len(benches) >= 1 THEN benches[1].face_angle ELSE 9000

\* lines 336-349: overall angle (and inter-ramp angle, set to the same)
overall_angle_of(benches) ==
    IF Len(benches) >= 2
    THEN LET top == benches[1]
             bot == benches[Len(benches)]
             dz == top.crest_elevation - bot.toe_elevation
             dx_total == Abs(top.crest_distance - bot.toe_distance)
         IN  IF dx_total > 0 THEN AtanDeg(Abs(dz), dx_total) ELSE 0
    ELSE IF Len(benches) = 1 THEN benches[1].face_angle
    ELSE 0

extract_parameters(points, section_name, sector, cfg) ==
    LET simplified == ramer_douglas_peucker(points, epsilon20(cfg))
        steep == is_steep(segment_angles(simplified), cfg.face_threshold)
        paired == build_benches(simplified, crest_vertices(steep),
                                toe_vertices(steep), cfg.face_threshold,
                                1, 1, << >>)
        sorted == Renumber(sort_by_crest(merge_micro_benches(paired)))
        benches == trailing_berm(
                       filter_large_berms(berm_widths(sorted), cfg.max_berm_width),
                       points, cfg.berm_threshold)
    IN  IF Len(points) < 3
        THEN ExtractionResult(section_name, sector, << >>, 0, 0)
        ELSE IF Len(simplified) < 3
        THEN ExtractionResult(section_name, sector, << >>, 0, 0)
        ELSE IF \A i \in 1..(Len(simplified) - 1) : ~valid_seg(simplified, i)
        THEN ExtractionResult(section_name, sector, << >>, 0, 0)
        ELSE ExtractionResult(section_name, sector, benches,
                              overall_angle_of(benches), overall_angle_of(benches))

-----------------------------------------------------------------------------
(* _evaluate_status                                                        *)

\* abs_dev <= limit * 1.5
WithinOneAndAHalf(abs_dev, limit) == 2 * abs_dev <= 3 * limit

Mut_evaluate_status(deviation, tol_neg, tol_pos) ==
    LET limit == tol_pos
        abs_dev == Abs(deviation)
    IN  IF abs_dev <= limit THEN "CUMPLE"
        ELSE IF WithinOneAndAHalf(abs_dev, limit) THEN "FUERA DE TOLERANCIA"
        ELSE "NO CUMPLE"

_evaluate_status(deviation, tol_neg, tol_pos) ==
    LET limit == IF deviation < 0 THEN tol_neg ELSE tol_pos
        abs_dev == Abs(deviation)
    IN  IF abs_dev <= limit THEN "CUMPLE"
        ELSE IF WithinOneAndAHalf(abs_dev, limit) THEN "FUERA DE TOLERANCIA"
        ELSE "NO CUMPLE"

-----------------------------------------------------------------------------
(* compare_design_vs_asbuilt: cost matrix and assignment                   *)

\* twice the midpoint elevation (crest_elevation + toe_elevation) / 2
midpoint2(b) == b.crest_elevation + b.toe_elevation

\* cost_matrix[i][j] = |bd_z - bt_z|, kept doubled (units of a quarter metre)
cost_matrix(benches_design, benches_topo) ==
    [i \in 1..Len(benches_design) |->
        [j \in 1..Len(benches_topo) |->
            Abs(midpoint2(benches_design[i]) - midpoint2(benches_topo[j]))]]

\* match_threshold = 8.0 (metres), in half metres
match_threshold == 16

Mut_valid_match_le(diff2) == diff2 <= 2 * match_threshold

Mut_valid_match_always(diff2) == TRUE

\* diff < match_threshold, on the doubled cost
valid_match(diff2) == diff2 < 2 * match_threshold

\* The one-to-one pairings of min(n_d, n_t) rows with as many columns: the
\* shape of every (row_ind, col_ind) that linear_sum_assignment can return.
Assignments(n_d, n_t) ==
    IF n_d <= n_t
    THEN { {<<r, f[r]>> : r \in 1..n_d} :
             f \in {g \in [1..n_d -> 1..n_t] :
                      \A a, b \in 1..n_d : a # b => g[a] # g[b]} }
    ELSE { {<<f[c], c>> : c \in 1..n_t} :
             f \in {g \in [1..n_t -> 1..n_d] :
                      \A a, b \in 1..n_t : a # b => g[a] # g[b]} }

RECURSIVE TotalCost(_, _)
TotalCost(A, C) ==
    IF A = {} THEN 0
    ELSE LET p == CHOOSE q \in A : TRUE
         IN  C[p[1]][p[2]] + TotalCost(A \ {p}, C)

\* A solver that pairs row k with column k, whatever the costs.
Mut_linear_sum_assignment(C, n_d, n_t) ==
    { {<<k, k>> : k \in 1..Min2(n_d, n_t)} }

\* scipy's linear_sum_assignment: a pairing of minimal total cost.  Which of
\* several minimal pairings it returns is the library's choice, so all of
\* them are outcomes.
linear_sum_assignment(C, n_d, n_t) ==
    {A \in Assignments(n_d, n_t) :
        \A A2 \in Assignments(n_d, n_t) : TotalCost(A, C) <= TotalCost(A2, C)}

\* a column of the pairing, whatever the row
Mut_ColOf(A, r) == CHOOSE c \in {p[2] : p \in A} : TRUE

\* the column paired with row r
ColOf(A, r) == CHOOSE c \in {p[2] : p \in A} : <<r, c>> \in A

-----------------------------------------------------------------------------
(* compare_design_vs_asbuilt: statuses and records                         *)

\* tol_b.get('min', 0.0)
min_berm_of(tol) ==
    IF tol.berm_width.min = None THEN 0 ELSE tol.berm_width.min[1]

Mut_baseline_berm_status(bd, bt, min_berm) ==
    IF bt.berm_width >= min_berm THEN "CUMPLE"
    ELSE IF 5 * bt.berm_width >= 4 * min_berm THEN "FUERA DE TOLERANCIA"
    ELSE "NO CUMPLE"

\* the four-way berm status before the ramp override (min_berm * 0.8 is
\* compared as 5 * width >= 4 * min_berm)
baseline_berm_status(bd, bt, min_berm) ==
    IF bt.berm_width = 0 /\ bd.berm_width = 0 THEN "CUMPLE"
    ELSE IF bt.berm_width >= min_berm THEN "CUMPLE"
    ELSE IF 5 * bt.berm_width >= 4 * min_berm THEN "FUERA DE TOLERANCIA"
    ELSE "NO CUMPLE"

Mut_ramp_berm_status(bd, bt, baseline) ==
    IF bt.is_ramp
    THEN IF bd.is_ramp
         THEN IF Abs(bt.berm_width - bd.berm_width) < 6
              THEN "RAMPA OK" ELSE "RAMPA (Desv. Ancho)"
         ELSE "RAMPA DETECTADA"
    ELSE IF bd.is_ramp THEN "FALTA RAMPA"
    ELSE baseline

\* the ramp override: 15.0 m = 30 and 3.0 m = 6 half metres
ramp_berm_status(bd, bt, baseline) ==
    IF bt.is_ramp
    THEN IF bd.is_ramp \/ bd.berm_width > 30
         THEN IF Abs(bt.berm_width - bd.berm_width) < 6
              THEN "RAMPA OK" ELSE "RAMPA (Desv. Ancho)"
         ELSE "RAMPA DETECTADA"
    ELSE IF bd.is_ramp THEN "FALTA RAMPA"
    ELSE baseline

\* f"{x:.0f}" of an elevation x (half metres): the sign character and the
\* digits of |x| rounded half-to-even; -0.5 prints as "-0".
format_level(x) == [minus |-> x < 0, digits |-> RoundHalfEven(Abs(x), 2)]

\* the number a level string denotes
level_value(l) == IF l.minus THEN -l.digits ELSE l.digits

\* float(level) if level.replace('.', '', 1).isdigit() else 0: a string with
\* a minus sign is not all digits.
sort_key(l) == IF l.minus THEN 0 ELSE l.digits

match_record(pd, bd, bt, tol) ==
    LET height_dev == bt.bench_height - bd.bench_height
        angle_dev == bt.face_angle - bd.face_angle
        tol_h == tol.bench_height
        tol_a == tol.face_angle
        min_berm == min_berm_of(tol)
    IN  [sector |-> pd.sector, section |-> pd.section_name,
         bench_num |-> bd.bench_number, type |-> "MATCH",
         level |-> format_level(bd.toe_elevation),
         height_design |-> Some(round2(bd.bench_height)),
         height_real |-> Some(round2(bt.bench_height)),
         height_dev |-> Some(round2(height_dev)),
         height_status |-> _evaluate_status(height_dev, tol_h.neg, tol_h.pos),
         angle_design |-> Some(round1(bd.face_angle)),
         angle_real |-> Some(round1(bt.face_angle)),
         angle_dev |-> Some(round1(angle_dev)),
         angle_status |-> _evaluate_status(angle_dev, tol_a.neg, tol_a.pos),
         berm_design |-> Some(round2(bd.berm_width)),
         berm_real |-> Some(round2(bt.berm_width)),
         berm_min |-> Some(min_berm),
         berm_status |->
             ramp_berm_status(bd, bt, baseline_berm_status(bd, bt, min_berm)),
         delta_crest |-> Some(round2(bt.crest_distance - bd.crest_distance)),
         delta_toe |-> Some(round2(bt.toe_distance - bd.toe_distance)),
         bench_design |-> Some(bd), bench_real |-> Some(bt)]

missing_record(pd, bd) ==
    [sector |-> pd.sector, section |-> pd.section_name,
     bench_num |-> bd.bench_number, type |-> "MISSING",
     level |-> format_level(bd.toe_elevation),
     height_design |-> Some(round2(bd.bench_height)),
     height_real |-> None, height_dev |-> None,
     height_status |-> "NO CONSTRUIDO",
     angle_design |-> Some(round1(bd.face_angle)),
     angle_real |-> None, angle_dev |-> None, angle_status |-> "-",
     berm_design |-> Some(round2(bd.berm_width)),
     berm_real |-> None, berm_min |-> None,
     berm_status |-> "FALTA BANCO",
     delta_crest |-> None, delta_toe |-> None,
     bench_design |-> Some(bd), bench_real |-> None]

extra_record(pd, bt) ==
    [sector |-> pd.sector, section |-> pd.section_name,
     bench_num |-> 999, type |-> "EXTRA",
     level |-> format_level(bt.toe_elevation),
     height_design |-> None,
     height_real |-> Some(round2(bt.bench_height)), height_dev |-> None,
     height_status |-> "EXTRA",
     angle_design |-> None,
     angle_real |-> Some(round1(bt.face_angle)),
     angle_dev |-> None, angle_status |-> "-",
     berm_design |-> None,
     berm_real |-> Some(round2(bt.berm_width)), berm_min |-> None,
     berm_status |-> "BANCO ADICIONAL",
     delta_crest |-> None, delta_toe |-> None,
     bench_design |-> None, bench_real |-> Some(bt)]

\* list.sort(key=..., reverse=True): a stable sort by descending key.  Each
\* record goes behind every record already placed whose key is not smaller.
RECURSIVE InsertByKey(_, _)
InsertByKey(sorted, rec) ==
    IF sorted = << >> THEN <<rec>>
    ELSE IF sort_key(Head(sorted).level) >= sort_key(rec.level)
         THEN <<Head(sorted)>> \o InsertByKey(Tail(sorted), rec)
         ELSE <<rec>> \o sorted

RECURSIVE sort_by_level(_)
sort_by_level(recs) ==
    IF recs = << >> THEN << >>
    ELSE InsertByKey(sort_by_level(SubSeq(recs, 1, Len(recs) - 1)),
                     recs[Len(recs)])

Mut_early_return(n_d, n_t) == n_d = 0 \/ n_t = 0

\* if n_d == 0 and n_t == 0: return []
early_return(n_d, n_t) == n_d = 0 /\ n_t = 0

\* The body of compare_design_vs_asbuilt for the pairing A that the solver
\* returned: MATCH records in row order, then MISSING, then EXTRA, sorted.
compare_design_vs_asbuilt(pd, pt, tol, A) ==
    LET benches_design == pd.benches
        benches_topo == pt.benches
        n_d == Len(benches_design)
        n_t == Len(benches_topo)
        C == cost_matrix(benches_design, benches_topo)
        matched == {p \in A : valid_match(C[p[1]][p[2]])}
        matched_design_indices == {p[1] : p \in matched}
        matched_topo_indices == {p[2] : p \in matched}
        rows == SelectSeq([i \in 1..n_d |-> i],
                          LAMBDA i : i \in matched_design_indices)
        missing == SelectSeq([i \in 1..n_d |-> i],
                             LAMBDA i : i \notin matched_design_indices)
        extra == SelectSeq([j \in 1..n_t |-> j],
                           LAMBDA j : j \notin matched_topo_indices)
    IN  IF early_return(n_d, n_t) THEN << >>
        ELSE sort_by_level(
               [k \in 1..Len(rows) |->
                   match_record(pd, benches_design[rows[k]],
                                benches_topo[ColOf(matched, rows[k])], tol)]
            \o [k \in 1..Len(missing) |->
                   missing_record(pd, benches_design[missing[k]])]
            \o [k \in 1..Len(extra) |->
                   extra_record(pd, benches_topo[extra[k]])])

-----------------------------------------------------------------------------
(* Inputs of the comparator                                                *)

\* the longest bench list of a section that is enumerated
MaxBenches == 2

\* Design benches (half metres, centi-degrees).  The first is the bench of
\* verify_changes.py: crest (10, 100), toe (12, 90), 70 deg, berm 25, ramp.
DesignBenchSet ==
    { BenchParams(0, 200, 20, 180, 24, 20, 7000, 50, TRUE),
      BenchParams(0, 170, 40, 150, 46, 20, 7000, 16, FALSE),
      BenchParams(0, 10, 100, -10, 106, 20, 6500, 40, FALSE),
      BenchParams(0, -20, 130, -41, 137, 21, 6800, 0, FALSE),
      BenchParams(0, -60, 160, -80, 168, 20, 7200, 50, TRUE) }

\* As-built benches.
TopoBenchSet ==
    { BenchParams(0, 200, 20, 180, 24, 20, 7000, 50, TRUE),
      BenchParams(0, 186, 30, 162, 37, 24, 6400, 9, FALSE),
      BenchParams(0, 172, 41, 150, 48, 22, 7450, 36, TRUE),
      BenchParams(0, 168, 43, 149, 49, 19, 6600, 6, FALSE),
      BenchParams(0, 13, 99, -9, 108, 22, 6150, 60, TRUE),
      BenchParams(0, -24, 131, -44, 139, 20, 6800, 0, FALSE),
      BenchParams(0, -58, 161, -81, 170, 23, 7200, 4, FALSE) }

\* benches of a set in the order extract_parameters leaves a list in:
\* descending crest_elevation
RECURSIVE ByDescendingCrest(_)
ByDescendingCrest(S) ==
    IF S = {} THEN << >>
    ELSE LET top == CHOOSE b \in S :
                      \A o \in S : o.crest_elevation <= b.crest_elevation
         IN  <<top>> \o ByDescendingCrest(S \ {top})

BenchLists(S) ==
    { Renumber(ByDescendingCrest(T)) :
        T \in {U \in SUBSET S : Cardinality(U) <= MaxBenches} }

\* {'bench_height': {'neg', 'pos'}, 'face_angle': {'neg', 'pos'},
\*  'berm_width': {'min'}}: the tolerances of verify_changes.py (1 m, 5 deg,
\* 5 m) and an asymmetric configuration whose berm_width has no 'min'.
ToleranceSet ==
    { [bench_height |-> [neg |-> 2, pos |-> 2],
       face_angle |-> [neg |-> 500, pos |-> 500],
       berm_width |-> [min |-> Some(10)]],
      [bench_height |-> [neg |-> 4, pos |-> 2],
       face_angle |-> [neg |-> 300, pos |-> 500],
       berm_width |-> [min |-> None]] }

-----------------------------------------------------------------------------
(* Inputs of extract_parameters                                            *)

\* resolution=0.5, face_threshold=40.0, berm_threshold=20.0,
\* max_berm_width=50.0
DefaultConfig ==
    [resolution |-> 5, face_threshold |-> 4000, berm_threshold |-> 2000,
     max_berm_width |-> 100]

\* the defaults, a berm limit of 30 m, and the filter disabled together
\* with a berm threshold of 5 deg
ConfigSet ==
    { DefaultConfig,
      [DefaultConfig EXCEPT !.max_berm_width = 60],
      [DefaultConfig EXCEPT !.max_berm_width = 0, !.berm_threshold = 500] }

\* the number of features a drawn profile is made of
MaxFeatures == 4

\* A profile is drawn as a walk from (0, 100 m): each feature adds points by
\* its (distance, elevation) steps.  Single segments: a 10 m berm, a 25 m
\* berm, a 10 m face of 78.7 deg, the same face rising, a 2.5 m face of
\* 68.2 deg.  Two segments: a 20 m face, a 10 m berm, a 30 m berm.
FeatureSet ==
    { << <<20, 0>> >>,
      << <<50, 0>> >>,
      << <<4, -20>> >>,
      << <<4, 20>> >>,
      << <<2, -5>> >>,
      << <<4, -20>>, <<6, -20>> >>,
      << <<10, 0>>, <<10, -1>> >>,
      << <<30, 0>>, <<30, -1>> >> }

RECURSIVE Walk(_, _)
Walk(points, steps) ==
    IF steps = << >> THEN points
    ELSE LET last == points[Len(points)]
         IN  Walk(Append(points, <<last[1] + Head(steps)[1],
                                   last[2] + Head(steps)[2]>>),
                  Tail(steps))

RECURSIVE Flatten(_)
Flatten(features) ==
    IF features = << >> THEN << >>
    ELSE Head(features) \o Flatten(Tail(features))

ProfileSet ==
    { Walk(<< <<0, 200>> >>, Flatten(fs)) :
        fs \in UNION {[1..n -> FeatureSet] : n \in 0..MaxFeatures} }

\* the comparator's variables while only extract_parameters runs
CompareIdle ==
    /\ pc = "idle"
    /\ params_design = ExtractionResult("S1", "Sec", << >>, 0, 0)
    /\ params_topo = ExtractionResult("S1", "Sec", << >>, 0, 0)
    /\ tolerances = None
    /\ row_col = {}
    /\ comparisons = << >>

\* the variables of a direct ramer_douglas_peucker call while none is made
RdpIdle ==
    /\ rdp_pc = "idle"
    /\ rdp_points = << >>
    /\ rdp_eps = 0
    /\ rdp_out = << >>
    /\ rdp_kept = << >>
    /\ rdp_again = << >>

\* the extractor's variables while only the comparator runs
ExtractIdle ==
    /\ ex_pc = "idle"
    /\ ex_points = << >>
    /\ ex_config = DefaultConfig
    /\ ex_result = None
    /\ RdpIdle

\* the thread pool of the analysis step while no analysis runs in it
ParallelIdle ==
    /\ ui_profiles_d = << >>
    /\ ui_profiles_t = << >>
    /\ ui_futures = << >>
    /\ ui_finished = << >>
    /\ ui_order = << >>

\* the profile figure while no area between profiles is asked for
AreaIdle ==
    /\ area_pc = "idle"
    /\ profile_ref = None
    /\ profile_eval = None
    /\ area_result = << >>

\* the two front ends before any section is loaded
PipelinesIdle ==
    /\ sections = << >>
    /\ store_tolerances = None
    /\ store_settings = DefaultConfig
    /\ store_params_design = << >>
    /\ store_params_topo = << >>
    /\ store_comparison_results = << >>
    /\ api_pc = "idle"
    /\ reconciled_edit = None
    /\ requests_left = None
    /\ ui_params_d = << >>
    /\ ui_params_t = << >>
    /\ ui_comparisons = << >>
    /\ ui_pc = "idle"
    /\ ParallelIdle
    /\ AreaIdle

-----------------------------------------------------------------------------
(* ramer_douglas_peucker as a state machine: a polyline and an epsilon are *)
(* drawn, the function is called, and called again on what it returned     *)

\* the longest polyline drawn
MaxPolyline == 4

\* the points a polyline is drawn from
Lattice == (0..2) \X (0..2)

PolylineSet == UNION {[1..n -> Lattice] : n \in 1..MaxPolyline}

\* epsilon 0, 0.25 m and 0.6 m
EpsilonSet == {0, 5, 12}

InitRdp ==
    /\ rdp_pc = "start"
    /\ rdp_points \in PolylineSet
    /\ rdp_eps \in EpsilonSet
    /\ rdp_out = << >>
    /\ rdp_kept = << >>
    /\ rdp_again = << >>
    /\ ex_pc = "idle"
    /\ ex_points = << >>
    /\ ex_config = DefaultConfig
    /\ ex_result = None
    /\ CompareIdle
    /\ PipelinesIdle

\* simplified = ramer_douglas_peucker(points, epsilon)
Simplify ==
    /\ rdp_pc = "start"
    /\ rdp_out' = ramer_douglas_peucker(rdp_points, rdp_eps)
    /\ rdp_kept' = rdp_kept_indices(rdp_points, rdp_eps)
    /\ rdp_pc' = "simplified"
    /\ UNCHANGED <<rdp_points, rdp_eps, rdp_again>>
    /\ UNCHANGED <<ex_pc, ex_points, ex_config, ex_result, cmpVars, pipeVars>>

\* ramer_douglas_peucker(simplified, epsilon)
SimplifyAgain ==
    /\ rdp_pc = "simplified"
    /\ rdp_again' = ramer_douglas_peucker(rdp_out, rdp_eps)
    /\ rdp_pc' = "twice"
    /\ UNCHANGED <<rdp_points, rdp_eps, rdp_out, rdp_kept>>
    /\ UNCHANGED <<ex_pc, ex_points, ex_config, ex_result, cmpVars, pipeVars>>

NextRdp ==
    \/ Simplify
    \/ SimplifyAgain

SpecRdp == InitRdp /\ [][NextRdp]_vars

-----------------------------------------------------------------------------
(* extract_parameters as a state machine: a profile is drawn, then it runs *)

InitExtract ==
    /\ ex_pc = "start"
    /\ ex_points \in ProfileSet
    /\ ex_config \in ConfigSet
    /\ ex_result = None
    /\ RdpIdle
    /\ CompareIdle
    /\ PipelinesIdle

\* extract_parameters(distances, elevations, "S1", "Sec", resolution,
\*                    face_threshold, berm_threshold, max_berm_width)
ExtractParameters ==
    /\ ex_pc = "start"
    /\ ex_result' = Some(extract_parameters(ex_points, "S1", "Sec", ex_config))
    /\ ex_pc' = "extracted"
    /\ UNCHANGED <<ex_points, ex_config, rdpVars>>
    /\ UNCHANGED <<cmpVars, pipeVars>>

NextExtract == ExtractParameters

SpecExtract == InitExtract /\ [][NextExtract]_vars

-----------------------------------------------------------------------------
(* extract_parameters on bench walls: profiles drawn as a number of steps, *)
(* each a face followed by a berm of two segments                          *)

\* the number of steps of a drawn wall
MaxSteps == 3

\* faces of two segments: 20 m high, 2.5 m high, and 20 m high rising
FaceSet ==
    { << <<4, -20>>, <<6, -20>> >>,
      << <<0, -3>>, <<2, -2>> >>,
      << <<4, 20>>, <<6, 20>> >> }

\* a 10 m berm falling 1 m, a 40 m berm falling 1 m, a 20 m berm falling 2 m
BermSet ==
    { << <<10, 0>>, <<10, -2>> >>,
      << <<40, 0>>, <<40, -2>> >>,
      << <<20, 0>>, <<20, -4>> >> }

StepSet == { f \o b : f \in FaceSet, b \in BermSet }

WallProfileSet ==
    { Walk(<< <<0, 200>> >>, Flatten(st)) :
        st \in UNION {[1..n -> StepSet] : n \in 0..MaxSteps} }

InitWalls ==
    /\ ex_pc = "start"
    /\ ex_points \in WallProfileSet
    /\ ex_config \in ConfigSet
    /\ ex_result = None
    /\ RdpIdle
    /\ CompareIdle
    /\ PipelinesIdle

SpecWalls == InitWalls /\ [][NextExtract]_vars

-----------------------------------------------------------------------------
(* The comparator as a state machine: inputs are drawn, then it is called  *)

InitCompare ==
    /\ pc = "start"
    /\ params_design \in
         {ExtractionResult("S1", "Sec", bs, 0, 0) : bs \in BenchLists(DesignBenchSet)}
    /\ params_topo \in
         {ExtractionResult("S1", "Sec", bs, 0, 0) : bs \in BenchLists(TopoBenchSet)}
    /\ tolerances \in ToleranceSet
    /\ row_col = {}
    /\ comparisons = << >>
    /\ ExtractIdle
    /\ PipelinesIdle

\* what line 424 can leave in (row_ind, col_ind); nothing when line 411
\* returned first
solver_outcomes(pd, pt) ==
    IF early_return(Len(pd.benches), Len(pt.benches)) THEN { {} }
    ELSE linear_sum_assignment(cost_matrix(pd.benches, pt.benches),
                               Len(pd.benches), Len(pt.benches))

\* a direct call compare_design_vs_asbuilt(params_design, params_topo, tol)
CompareDesignVsAsbuilt ==
    /\ pc = "start"
    /\ \E A \in solver_outcomes(params_design, params_topo) :
          /\ row_col' = A
          /\ comparisons' =
                compare_design_vs_asbuilt(params_design, params_topo, tolerances, A)
    /\ pc' = "compared"
    /\ UNCHANGED <<params_design, params_topo, tolerances>>
    /\ UNCHANGED <<extVars, pipeVars>>

NextCompare == CompareDesignVsAsbuilt

SpecCompare == InitCompare /\ [][NextCompare]_vars

-----------------------------------------------------------------------------
(* The two front ends: POST /api/process and the Streamlit analysis step   *)

\* the number of section lines of a session
MaxSections == 2

\* a profile without a face, one with a single bench, one with two benches
FlatProfile == Walk(<< <<0, 200>> >>, << <<20, 0>>, <<50, 0>> >>)

OneBenchProfile ==
    Walk(<< <<0, 200>> >>, << <<4, -20>>, <<10, 0>>, <<10, -1>> >>)

TwoBenchProfile ==
    Walk(<< <<0, 200>> >>,
         << <<4, -20>>, <<10, 0>>, <<10, -1>>, <<50, 0>>, <<4, -20>> >>)

\* what cutting a mesh along a section returns: None when the section does
\* not cross the mesh, else the profile
DesignProfiles == {None, Some(FlatProfile), Some(TwoBenchProfile)}

TopoProfiles ==
    {None, Some(FlatProfile), Some(OneBenchProfile), Some(TwoBenchProfile)}

section_name_of(i) == IF i = 1 THEN "S1" ELSE IF i = 2 THEN "S2" ELSE "S3"

\* the section lists of a session, with the profile each mesh gives
SectionLists ==
    UNION { { [i \in 1..n |->
                 [name |-> section_name_of(i), sector |-> "Sec",
                  design_profile |-> d[i], topo_profile |-> t[i]]] :
              d \in [1..n -> DesignProfiles], t \in [1..n -> TopoProfiles] } :
            n \in 0..MaxSections }

\* the sidebar: tolerances -1.0/+1.5 m, -5/+5 deg, minimum berm 6 m;
\* face 40 deg, berm 5 deg, resolution 0.5 m
SidebarTolerances ==
    [bench_height |-> [neg |-> 2, pos |-> 3],
     face_angle |-> [neg |-> 500, pos |-> 500],
     berm_width |-> [min |-> Some(12)]]

SidebarConfig == [DefaultConfig EXCEPT !.berm_threshold = 500]

\* tolerances['bench_height'] of an empty dict raises KeyError: it is read
\* for the first pair under the threshold
compare_raises(pd, pt, tol, A) ==
    /\ tol = None
    /\ \E p \in A :
          valid_match(cost_matrix(pd.benches, pt.benches)[p[1]][p[2]])

\* One pass of the loop body of process_all: what is appended to the three
\* lists of the store, or the exception that ends the request after the two
\* parameter lists were appended to.  One result for each solver outcome.
process_section(sec, cfg, tol) ==
    IF sec.design_profile # None /\ sec.topo_profile # None
    THEN
      UNION {
        { IF compare_raises(p[1], p[2], tol, A)
          THEN [p_d |-> p[1], p_t |-> p[2], comps |-> << >>, raised |-> TRUE]
          ELSE [p_d |-> p[1], p_t |-> p[2],
                comps |-> compare_design_vs_asbuilt(p[1], p[2], tol, A),
                raised |-> FALSE]
          : A \in solver_outcomes(p[1], p[2]) }
        : p \in { << extract_parameters(sec.design_profile[1], sec.name,
                                        sec.sector, cfg),
                     extract_parameters(sec.topo_profile[1], sec.name,
                                        sec.sector, cfg) >> } }
    ELSE
      { [p_d |-> ExtractionResult(sec.name, sec.sector, << >>, 0, 0),
         p_t |-> ExtractionResult(sec.name, sec.sector, << >>, 0, 0),
         comps |-> << >>, raised |-> FALSE] }

\* the passes of a whole loop over the first n sections, one for each
RECURSIVE section_passes(_, _, _, _)
section_passes(secs, n, cfg, tol) ==
    IF n = 0 THEN { << >> }
    ELSE { Append(f, r) : f \in section_passes(secs, n - 1, cfg, tol),
                          r \in process_section(secs[n], cfg, tol) }

\* the number of passes that ran: up to and including the first that raised
passes_run(f) ==
    IF \E i \in 1..Len(f) : f[i].raised
    THEN CHOOSE i \in 1..Len(f) :
            f[i].raised /\ \A j \in 1..(i - 1) : ~f[j].raised
    ELSE Len(f)

Mut_both_have_benches(ep_d, ep_t) == ep_d.benches # << >> \/ ep_t.benches # << >>

\* if ep_d.benches and ep_t.benches:
both_have_benches(ep_d, ep_t) == ep_d.benches # << >> /\ ep_t.benches # << >>

\* _process_single: what one section can give, one result for each solver
\* outcome
_process_single(sec, cfg, tol) ==
    IF sec.design_profile # None /\ sec.topo_profile # None
    THEN
      UNION {
        IF both_have_benches(ep[1], ep[2])
        THEN { [ep_d |-> Some(ep[1]), ep_t |-> Some(ep[2]),
                comp |-> compare_design_vs_asbuilt(ep[1], ep[2], tol, A)] :
               A \in solver_outcomes(ep[1], ep[2]) }
        ELSE { [ep_d |-> Some(ep[1]), ep_t |-> Some(ep[2]), comp |-> << >>] }
        : ep \in { << extract_parameters(sec.design_profile[1], sec.name,
                                         sec.sector, cfg),
                      extract_parameters(sec.topo_profile[1], sec.name,
                                         sec.sector, cfg) >> } }
    ELSE { [ep_d |-> None, ep_t |-> None, comp |-> << >>] }

\* the results executor.map hands back for the first n sections, in the
\* order of the sections
RECURSIVE process_singles(_, _, _, _)
process_singles(secs, n, cfg, tol) ==
    IF n = 0 THEN { << >> }
    ELSE { Append(f, r) : f \in process_singles(secs, n - 1, cfg, tol),
                          r \in _process_single(secs[n], cfg, tol) }

\* a session whose meshes are uploaded and whose sections are loaded; the
\* store's tolerances are the empty dict of SessionStore.reset
InitPipelines ==
    /\ sections \in SectionLists
    /\ store_tolerances = None
    /\ store_settings = DefaultConfig
    /\ store_params_design = << >>
    /\ store_params_topo = << >>
    /\ store_comparison_results = << >>
    /\ api_pc = "idle"
    /\ reconciled_edit = None
    /\ requests_left = None
    /\ ui_params_d = << >>
    /\ ui_params_t = << >>
    /\ ui_comparisons = << >>
    /\ ui_pc = "idle"
    /\ ParallelIdle
    /\ AreaIdle
    /\ CompareIdle
    /\ ExtractIdle

\* one more request is served: of a session followed for a number of
\* requests, one is used up
ServeRequest ==
    IF requests_left = None THEN UNCHANGED requests_left
    ELSE /\ requests_left[1] > 0
         /\ requests_left' = Some(requests_left[1] - 1)

\* POST /api/tolerances
UpdateTolerances ==
    /\ ServeRequest
    /\ \E t \in ToleranceSet : store_tolerances' = t
    /\ UNCHANGED <<store_settings, store_params_design, store_params_topo,
                   store_comparison_results, api_pc, reconciled_edit>>
    /\ UNCHANGED <<sections, uiVars, cmpVars, extVars>>

\* POST /api/process
ProcessAll ==
    /\ ServeRequest
    /\ sections # << >>
    /\ \E f \in section_passes(sections, Len(sections), store_settings,
                                store_tolerances) :
          LET n == passes_run(f)
          IN  /\ store_params_design' = [i \in 1..n |-> f[i].p_d]
              /\ store_params_topo' = [i \in 1..n |-> f[i].p_t]
              /\ store_comparison_results' =
                    Flatten([i \in 1..n |-> f[i].comps])
              /\ api_pc' = IF f[n].raised THEN "failed" ELSE "processed"
    /\ reconciled_edit' = None
    /\ UNCHANGED <<store_tolerances, store_settings>>
    /\ UNCHANGED <<sections, uiVars, cmpVars, extVars>>

\* the "Ejecutar Analisis" button with every section selected: the loop over
\* the results of _run_parallel_analysis
RunParallelAnalysis ==
    /\ ui_pc = "idle"
    /\ sections # << >>
    /\ \E f \in process_singles(sections, Len(sections), SidebarConfig,
                              SidebarTolerances) :
          /\ ui_params_d' = [i \in 1..Len(f) |-> f[i].ep_d]
          /\ ui_params_t' = [i \in 1..Len(f) |-> f[i].ep_t]
          /\ ui_comparisons' = Flatten([i \in 1..Len(f) |-> f[i].comp])
    /\ ui_pc' = "results"
    /\ UNCHANGED parVars
    /\ UNCHANGED areaVars
    /\ UNCHANGED <<sections, apiVars, cmpVars, extVars>>

NextPipelines ==
    \/ UpdateTolerances
    \/ ProcessAll
    \/ RunParallelAnalysis

SpecPipelines == InitPipelines /\ [][NextPipelines]_vars

-----------------------------------------------------------------------------
(* _run_parallel_analysis with its thread pool: executor.map submits one   *)
(* task for each section, the workers run them in any order, and the loop  *)
(* of the calling thread receives the results                              *)

\* what the two meshes give along one section line: the design mesh is not
\* crossed, or the as-built side has one bench, two benches or no face
ParallelCuts ==
    { <<None, Some(TwoBenchProfile)>>,
      <<Some(TwoBenchProfile), Some(OneBenchProfile)>>,
      <<Some(TwoBenchProfile), Some(TwoBenchProfile)>>,
      <<Some(TwoBenchProfile), Some(FlatProfile)>> }

\* the lists sections_to_process of an analysis
ParallelSections ==
    UNION { { [i \in 1..n |->
                 [name |-> section_name_of(i), sector |-> "Sec",
                  design_profile |-> c[i][1], topo_profile |-> c[i][2]]] :
              c \in [1..n -> ParallelCuts] } :
            n \in 1..MaxSections }

\* a task of the pool that no worker has taken
PendingTask == [state |-> "pending", result |-> None]

\* return i, pd_prof, pt_prof, ep_d, ep_t, comp
task_results(i, sec, cfg, tol) ==
    { [i |-> i, pd_prof |-> sec.design_profile, pt_prof |-> sec.topo_profile,
       ep_d |-> r.ep_d, ep_t |-> r.ep_t, comp |-> r.comp] :
      r \in _process_single(sec, cfg, tol) }

\* the tasks whose result an iterator over the finished tasks would hand
\* out next: any that finished and was not received
Mut_map_yields(futures, order) ==
    { i \in 1..Len(futures) :
        /\ futures[i].state = "done"
        /\ \A k \in 1..Len(order) : order[k] # i }

\* the task whose result the iterator of executor.map hands out next: the
\* first not received, once it is done
map_yields(futures, order) ==
    IF Len(order) < Len(futures) /\ futures[Len(order) + 1].state = "done"
    THEN {Len(order) + 1}
    ELSE {}

\* [None] * total
NoneSlots(total) == [i \in 1..total |-> None]

InitParallel ==
    /\ sections \in ParallelSections
    /\ store_tolerances = None
    /\ store_settings = DefaultConfig
    /\ store_params_design = << >>
    /\ store_params_topo = << >>
    /\ store_comparison_results = << >>
    /\ api_pc = "idle"
    /\ reconciled_edit = None
    /\ requests_left = None
    /\ ui_params_d = << >>
    /\ ui_params_t = << >>
    /\ ui_comparisons = << >>
    /\ ui_pc = "idle"
    /\ ParallelIdle
    /\ AreaIdle
    /\ CompareIdle
    /\ ExtractIdle

\* lines 53-58 and 91-93: the output lists are sized and executor.map
\* submits a task for every section
SubmitTasks ==
    /\ ui_pc = "idle"
    /\ ui_profiles_d' = NoneSlots(Len(sections))
    /\ ui_profiles_t' = NoneSlots(Len(sections))
    /\ ui_params_d' = NoneSlots(Len(sections))
    /\ ui_params_t' = NoneSlots(Len(sections))
    /\ ui_comparisons' = << >>
    /\ ui_futures' = [i \in 1..Len(sections) |-> PendingTask]
    /\ ui_finished' = << >>
    /\ ui_order' = << >>
    /\ ui_pc' = "mapping"
    /\ UNCHANGED areaVars
    /\ UNCHANGED <<sections, apiVars, cmpVars, extVars>>

\* a worker thread takes a task and enters _process_single
WorkerStarts ==
    /\ ui_pc = "mapping"
    /\ \E i \in 1..Len(ui_futures) :
          /\ ui_futures[i].state = "pending"
          /\ ui_futures' = [ui_futures EXCEPT ![i].state = "running"]
    /\ UNCHANGED <<ui_profiles_d, ui_profiles_t, ui_params_d, ui_params_t,
                   ui_comparisons, ui_finished, ui_order, ui_pc>>
    /\ UNCHANGED areaVars
    /\ UNCHANGED <<sections, apiVars, cmpVars, extVars>>

\* a worker thread returns from _process_single: the task is done and holds
\* the tuple
WorkerFinishes ==
    /\ ui_pc = "mapping"
    /\ \E i \in 1..Len(ui_futures) :
          /\ ui_futures[i].state = "running"
          /\ \E r \in task_results(i, sections[i], SidebarConfig,
                                    SidebarTolerances) :
                ui_futures' =
                    [ui_futures EXCEPT ![i] = [state |-> "done",
                                               result |-> Some(r)]]
          /\ ui_finished' = Append(ui_finished, i)
    /\ UNCHANGED <<ui_profiles_d, ui_profiles_t, ui_params_d, ui_params_t,
                   ui_comparisons, ui_order, ui_pc>>
    /\ UNCHANGED areaVars
    /\ UNCHANGED <<sections, apiVars, cmpVars, extVars>>

\* lines 92-100: one pass of the loop over executor.map, which ends the
\* analysis when it was the last
ReceiveResult ==
    /\ ui_pc = "mapping"
    /\ \E k \in map_yields(ui_futures, ui_order) :
          LET r == ui_futures[k].result[1]
              both == r.ep_d # None /\ r.ep_t # None
          IN  /\ ui_profiles_d' = [ui_profiles_d EXCEPT ![r.i] = r.pd_prof]
              /\ ui_profiles_t' = [ui_profiles_t EXCEPT ![r.i] = r.pt_prof]
              /\ ui_params_d' =
                    IF both THEN [ui_params_d EXCEPT ![r.i] = r.ep_d]
                    ELSE ui_params_d
              /\ ui_params_t' =
                    IF both THEN [ui_params_t EXCEPT ![r.i] = r.ep_t]
                    ELSE ui_params_t
              /\ ui_comparisons' =
                    IF both THEN ui_comparisons \o r.comp ELSE ui_comparisons
              /\ ui_order' = Append(ui_order, k)
              /\ ui_pc' = IF Len(ui_order) + 1 = Len(ui_futures)
                          THEN "results" ELSE "mapping"
    /\ UNCHANGED <<ui_futures, ui_finished>>
    /\ UNCHANGED areaVars
    /\ UNCHANGED <<sections, apiVars, cmpVars, extVars>>

NextParallel ==
    \/ SubmitTasks
    \/ WorkerStarts
    \/ WorkerFinishes
    \/ ReceiveResult

SpecParallel == InitParallel /\ [][NextParallel]_vars

-----------------------------------------------------------------------------
(* The API session with the interactive edits of PUT /api/reconciled       *)

\* one entry of the request body: the keys it holds, each with its value
NoOverride ==
    [crest_distance |-> None, crest_elevation |-> None,
     toe_distance |-> None, toe_elevation |-> None]

\* an entry without keys, a toe dragged up to 97.5 m, and a face dragged to
\* the vertical at distance 32 m
OverrideSet ==
    { NoOverride,
      [NoOverride EXCEPT !.toe_elevation = Some(195)],
      [NoOverride EXCEPT !.crest_distance = Some(64),
                         !.toe_distance = Some(64)] }

\* the request bodies: one entry or more, as many as MaxBenches
UpdateLists == UNION {[1..n -> OverrideSet] : n \in 1..MaxBenches}

\* if abs(dx) > 0.01: abs(degrees(arctan2(dz, abs(dx)))) else 90.0
face_angle_of(dx, dz) == IF Abs(dx) > 0 THEN abs_angle(dz, Abs(dx)) ELSE 9000

\* lines 316-335: the positions an entry holds, then the derived values
apply_override(b, u) ==
    LET moved ==
          [b EXCEPT
             !.crest_distance =
                 IF u.crest_distance # None THEN u.crest_distance[1] ELSE @,
             !.crest_elevation =
                 IF u.crest_elevation # None THEN u.crest_elevation[1] ELSE @,
             !.toe_distance =
                 IF u.toe_distance # None THEN u.toe_distance[1] ELSE @,
             !.toe_elevation =
                 IF u.toe_elevation # None THEN u.toe_elevation[1] ELSE @]
        dx == moved.toe_distance - moved.crest_distance
        dz == moved.crest_elevation - moved.toe_elevation
    IN  [moved EXCEPT !.bench_height = Abs(dz),
                      !.face_angle = face_angle_of(dx, dz)]

Mut_recalculate_berm_widths(bs) == bs

\* lines 337-341: current.berm_width = abs(next_b.crest_distance -
\* current.toe_distance) for every bench but the last
recalculate_berm_widths(bs) ==
    [i \in 1..Len(bs) |->
        IF i < Len(bs)
        THEN [bs[i] EXCEPT !.berm_width =
                 Abs(bs[i + 1].crest_distance - bs[i].toe_distance)]
        ELSE bs[i]]

\* the benches of p_topo after the two loops of update_reconciled
update_benches(bs, updates) ==
    recalculate_berm_widths(
        [i \in 1..Len(bs) |->
            IF i <= Len(updates) THEN apply_override(bs[i], updates[i])
            ELSE bs[i]])

\* c for c in store.comparison_results if c.get("section") != sec_name
other_sections(recs, sec_name) ==
    SelectSeq(recs, LAMBDA c : c.section # sec_name)

\* the sessions whose edits are followed: one section with two benches on
\* both sides, the same behind a section with one as-built bench only, and a
\* section the design mesh does not cross
SessionSections ==
    LET sec(i, d, t) ==
          [name |-> section_name_of(i), sector |-> "Sec",
           design_profile |-> d, topo_profile |-> t]
    IN  { << sec(1, Some(TwoBenchProfile), Some(TwoBenchProfile)) >>,
          << sec(1, Some(FlatProfile), Some(OneBenchProfile)),
             sec(2, Some(TwoBenchProfile), Some(TwoBenchProfile)) >>,
          << sec(1, None, Some(TwoBenchProfile)) >> }

\* a session whose meshes are uploaded and whose sections are loaded
InitSession ==
    /\ sections \in SessionSections
    /\ store_tolerances = None
    /\ store_settings = DefaultConfig
    /\ store_params_design = << >>
    /\ store_params_topo = << >>
    /\ store_comparison_results = << >>
    /\ api_pc = "idle"
    /\ reconciled_edit = None
    /\ requests_left = None
    /\ ui_params_d = << >>
    /\ ui_params_t = << >>
    /\ ui_comparisons = << >>
    /\ ui_pc = "idle"
    /\ ParallelIdle
    /\ AreaIdle
    /\ CompareIdle
    /\ ExtractIdle

\* PUT /api/reconciled/{section_index}, section_index counted from 1 here.
\* The benches are edited in place first; store.sections[section_index] of
\* line 347 raises IndexError when fewer sections are loaded, and the
\* comparison of line 352 may raise after the old records were removed.
UpdateReconciled ==
    /\ ServeRequest
    /\ \E section_index \in 1..Len(store_params_topo) :
       \E benches \in UpdateLists :
         LET p_topo ==
               [store_params_topo[section_index] EXCEPT
                  !.benches = update_benches(@, benches)]
             p_design == store_params_design[section_index]
         IN  /\ store_params_topo' =
                   [store_params_topo EXCEPT ![section_index] = p_topo]
             /\ IF section_index > Len(sections)
                THEN UNCHANGED store_comparison_results
                ELSE LET kept == other_sections(store_comparison_results,
                                                sections[section_index].name)
                     IN  \E A \in solver_outcomes(p_design, p_topo) :
                           store_comparison_results' =
                             IF compare_raises(p_design, p_topo,
                                               store_tolerances, A)
                             THEN kept
                             ELSE kept \o compare_design_vs_asbuilt(
                                       p_design, p_topo, store_tolerances, A)
             /\ reconciled_edit' =
                   Some([section |-> section_index,
                         edited |-> Min2(Len(benches), Len(p_topo.benches))])
             /\ UNCHANGED <<store_tolerances, store_settings,
                            store_params_design, api_pc>>
             /\ UNCHANGED <<sections, uiVars, cmpVars, extVars>>

NextSession ==
    \/ UpdateTolerances
    \/ ProcessAll
    \/ UpdateReconciled

SpecSession == InitSession /\ [][NextSession]_vars

-----------------------------------------------------------------------------
(* The API session with all its operations on the store: the section list  *)
(* and the settings may be replaced at any time                            *)

\* the section files loaded: two sections of different names, two sections
\* of one name in different sectors, and a single other section
ApiSectionLists ==
    LET sec(name, sector, d, t) ==
          [name |-> name, sector |-> sector,
           design_profile |-> d, topo_profile |-> t]
    IN  { << sec("S1", "North", Some(TwoBenchProfile), Some(TwoBenchProfile)),
             sec("S2", "North", Some(TwoBenchProfile), Some(OneBenchProfile)) >>,
          << sec("S1", "North", Some(TwoBenchProfile), Some(TwoBenchProfile)),
             sec("S1", "South", Some(TwoBenchProfile), Some(OneBenchProfile)) >>,
          << sec("S3", "North", Some(TwoBenchProfile), Some(OneBenchProfile)) >> }

\* the number of requests a session with all operations is followed for
MaxRequests == 5

\* the settings posted: the defaults, and a face threshold of 80 deg
SettingsSet == { DefaultConfig, [DefaultConfig EXCEPT !.face_threshold = 8000] }

\* SessionStore.reset with both meshes uploaded
InitApi ==
    /\ sections = << >>
    /\ store_tolerances = None
    /\ store_settings = DefaultConfig
    /\ store_params_design = << >>
    /\ store_params_topo = << >>
    /\ store_comparison_results = << >>
    /\ api_pc = "idle"
    /\ reconciled_edit = None
    /\ requests_left = Some(MaxRequests)
    /\ ui_params_d = << >>
    /\ ui_params_t = << >>
    /\ ui_comparisons = << >>
    /\ ui_pc = "idle"
    /\ ParallelIdle
    /\ AreaIdle
    /\ CompareIdle
    /\ ExtractIdle

\* POST /api/sections/load
LoadSections ==
    /\ ServeRequest
    /\ \E l \in ApiSectionLists : sections' = l
    /\ UNCHANGED <<store_tolerances, store_settings, store_params_design,
                   store_params_topo, store_comparison_results, api_pc,
                   reconciled_edit>>
    /\ UNCHANGED <<uiVars, cmpVars, extVars>>

\* POST /api/settings
UpdateSettings ==
    /\ ServeRequest
    /\ \E c \in SettingsSet : store_settings' = c
    /\ UNCHANGED <<store_tolerances, store_params_design, store_params_topo,
                   store_comparison_results, api_pc, reconciled_edit>>
    /\ UNCHANGED <<sections, uiVars, cmpVars, extVars>>

NextApi ==
    \/ LoadSections
    \/ UpdateSettings
    \/ UpdateTolerances
    \/ ProcessAll
    \/ UpdateReconciled

SpecApi == InitApi /\ [][NextApi]_vars

-----------------------------------------------------------------------------
(* Properties of compare_design_vs_asbuilt                                 *)

Compared == pc = "compared"

RecordsOfType(t) == {k \in 1..Len(comparisons) : comparisons[k].type = t}

\* doubled cost of the pair a MATCH record reports
RecordCost2(rec) ==
    Abs(midpoint2(rec.bench_design[1]) - midpoint2(rec.bench_real[1]))

SumOfMatchCosts ==
    LET ms == SelectSeq(comparisons, LAMBDA rec : rec.type = "MATCH")
    IN  SumSeq([k \in 1..Len(ms) |-> RecordCost2(ms[k])])

InputCosts == cost_matrix(params_design.benches, params_topo.benches)

InputPairings ==
    Assignments(Len(params_design.benches), Len(params_topo.benches))

\* C2: the costs of the pairs reported as MATCH add up to no more than the
\* costs of any alternative one-to-one pairing of the same benches (a pairing
\* of min(n_design, n_asbuilt) pairs, as the solver forms them).
C2_MatchingOptimality ==
    Compared =>
        \A A \in InputPairings : SumOfMatchCosts <= TotalCost(A, InputCosts)

\* C2 witness: a call that reported a MATCH although pairing the benches in
\* list order would have cost more.
C2_Witness ==
    /\ Compared
    /\ RecordsOfType("MATCH") # {}
    /\ Len(params_design.benches) # Len(params_topo.benches)
    /\ \E A \in InputPairings :
          /\ A = {<<k, k>> : k \in 1..Cardinality(A)}
          /\ TotalCost(A, InputCosts) > TotalCost(row_col, InputCosts)

HasRecord(t, bd, bt) ==
    \E k \in RecordsOfType(t) :
        /\ comparisons[k].bench_design = bd
        /\ comparisons[k].bench_real = bt

\* C3: a pair (i, j) selected by the assignment is reported as MATCH iff its
\* cost is below 8.0 m (doubled cost below 32 quarter metres); otherwise no
\* MATCH names either bench, design i is MISSING and as-built j is EXTRA.
C3_MatchIffBelowThreshold ==
    Compared =>
        \A p \in row_col :
            LET bd == params_design.benches[p[1]]
                bt == params_topo.benches[p[2]]
                cost2 == Abs(midpoint2(bd) - midpoint2(bt))
            IN  /\ HasRecord("MATCH", Some(bd), Some(bt)) <=> cost2 < 32
                /\ cost2 >= 32 =>
                     /\ \A k \in RecordsOfType("MATCH") :
                           /\ comparisons[k].bench_design # Some(bd)
                           /\ comparisons[k].bench_real # Some(bt)
                     /\ HasRecord("MISSING", Some(bd), None)
                     /\ HasRecord("EXTRA", None, Some(bt))

\* C3 witness: the solver selected a pair whose cost is exactly 8.0 m, beside
\* a pair that was accepted.
C3_Witness ==
    /\ Compared
    /\ \E p \in row_col : InputCosts[p[1]][p[2]] = 32
    /\ RecordsOfType("MATCH") # {}

FarFromAllTopo(i) ==
    \A j \in 1..Len(params_topo.benches) : InputCosts[i][j] > 32

\* C4: a design bench whose midpoint is more than 8.0 m from every as-built
\* midpoint is in exactly one MISSING record and in no MATCH record, and that
\* record has the fixed statuses and null "real" fields.
C4_FarDesignBenchIsMissing ==
    Compared =>
        \A i \in 1..Len(params_design.benches) :
            FarFromAllTopo(i) =>
                LET bd == Some(params_design.benches[i])
                    ks == {k \in 1..Len(comparisons) :
                             comparisons[k].bench_design = bd}
                IN  /\ Cardinality(ks) = 1
                    /\ \A k \in ks :
                          LET rec == comparisons[k]
                          IN  /\ rec.type = "MISSING"
                              /\ rec.height_status = "NO CONSTRUIDO"
                              /\ rec.angle_status = "-"
                              /\ rec.berm_status = "FALTA BANCO"
                              /\ rec.height_real = None
                              /\ rec.height_dev = None
                              /\ rec.angle_real = None
                              /\ rec.angle_dev = None
                              /\ rec.berm_real = None
                              /\ rec.delta_crest = None
                              /\ rec.delta_toe = None
                              /\ rec.bench_real = None

\* C4 witness: a design bench far from every bench of a non-empty as-built
\* list, in a call that also matched another design bench.
C4_Witness ==
    /\ Compared
    /\ params_topo.benches # << >>
    /\ \E i \in 1..Len(params_design.benches) : FarFromAllTopo(i)
    /\ RecordsOfType("MATCH") # {}

VerifyChangesBench == BenchParams(1, 200, 20, 180, 24, 20, 7000, 50, TRUE)

\* C5: in a MATCH record the ramp flags decide berm_status: as-built ramp ->
\* "RAMPA OK" / "RAMPA (Desv. Ancho)" when the design is a ramp or wider than
\* 15 m (30), by |width difference| < 3 m (6), else "RAMPA DETECTADA"; design
\* ramp only -> "FALTA RAMPA".  Two identical ramp benches of width 25 give
\* exactly one record, a MATCH with "RAMPA OK".
C5_RampOverride ==
    Compared =>
        /\ \A k \in RecordsOfType("MATCH") :
              LET rec == comparisons[k]
                  bd == rec.bench_design[1]
                  bt == rec.bench_real[1]
                  wide == bd.is_ramp \/ bd.berm_width > 30
                  near == Abs(bt.berm_width - bd.berm_width) < 6
              IN  /\ bt.is_ramp /\ wide /\ near => rec.berm_status = "RAMPA OK"
                  /\ bt.is_ramp /\ wide /\ ~near =>
                        rec.berm_status = "RAMPA (Desv. Ancho)"
                  /\ bt.is_ramp /\ ~wide => rec.berm_status = "RAMPA DETECTADA"
                  /\ ~bt.is_ramp /\ bd.is_ramp => rec.berm_status = "FALTA RAMPA"
        /\ (/\ params_design.benches = <<VerifyChangesBench>>
            /\ params_topo.benches = <<VerifyChangesBench>>) =>
              /\ Len(comparisons) = 1
              /\ comparisons[1].type = "MATCH"
              /\ comparisons[1].berm_status = "RAMPA OK"

\* C5 witness: one call whose MATCH records show an as-built ramp against a
\* design bench that is no ramp but wider than 15 m, and a design ramp that
\* was not built.
C5_Witness ==
    /\ Compared
    /\ \E k \in RecordsOfType("MATCH") :
          /\ comparisons[k].bench_real[1].is_ramp
          /\ ~comparisons[k].bench_design[1].is_ramp
          /\ comparisons[k].berm_status = "RAMPA (Desv. Ancho)"
    /\ \E k \in RecordsOfType("MATCH") :
          comparisons[k].berm_status = "FALTA RAMPA"

\* the status the claim prescribes for a deviation
ClaimedStatus(status, deviation, tol) ==
    LET limit == IF deviation < 0 THEN tol.neg ELSE tol.pos
        a == Abs(deviation)
    IN  /\ status = "CUMPLE" <=> a <= limit
        /\ status = "FUERA DE TOLERANCIA" <=> (limit < a /\ 2 * a <= 3 * limit)
        /\ status = "NO CUMPLE" <=> 2 * a > 3 * limit

\* C6: height_status and angle_status of a MATCH record are the tripartite
\* status of real - design for bench_height and face_angle: limit is tol_neg
\* for a negative deviation and tol_pos otherwise; CUMPLE iff |dev| <= limit,
\* FUERA DE TOLERANCIA iff limit < |dev| <= 1.5 limit, NO CUMPLE iff beyond.
C6_TripartiteStatus ==
    Compared =>
        \A k \in RecordsOfType("MATCH") :
            LET rec == comparisons[k]
                bd == rec.bench_design[1]
                bt == rec.bench_real[1]
            IN  /\ rec.height_dev = Some(bt.bench_height - bd.bench_height)
                /\ ClaimedStatus(rec.height_status,
                                 bt.bench_height - bd.bench_height,
                                 tolerances.bench_height)
                /\ ClaimedStatus(rec.angle_status,
                                 bt.face_angle - bd.face_angle,
                                 tolerances.face_angle)

\* C6 witness: a MATCH whose angle deviation is negative under tolerances
\* with tol_neg # tol_pos and lies beyond 1.5 tol_neg but within 1.5 tol_pos,
\* and whose height deviation is exactly 1.5 tol_pos.
C6_Witness ==
    /\ Compared
    /\ \E k \in RecordsOfType("MATCH") :
          LET rec == comparisons[k]
              da == rec.bench_real[1].face_angle - rec.bench_design[1].face_angle
          IN  /\ da < 0
              /\ 2 * (-da) > 3 * tolerances.face_angle.neg
              /\ 2 * (-da) <= 3 * tolerances.face_angle.pos
              /\ rec.angle_status = "NO CUMPLE"
    /\ \E k \in RecordsOfType("MATCH") :
          LET rec == comparisons[k]
              dh == rec.bench_real[1].bench_height - rec.bench_design[1].bench_height
          IN  /\ 2 * dh = 3 * tolerances.bench_height.pos
              /\ rec.height_status = "FUERA DE TOLERANCIA"

\* C7: in a MATCH record of two benches that are no ramps, berm_status is
\* CUMPLE when both widths are 0, else CUMPLE when real >= min, else FUERA DE
\* TOLERANCIA when real >= 0.8 min, else NO CUMPLE (min 0 when absent).
C7_BermPrecedence ==
    Compared =>
        \A k \in RecordsOfType("MATCH") :
            LET rec == comparisons[k]
                bd == rec.bench_design[1]
                bt == rec.bench_real[1]
                min == IF tolerances.berm_width.min = None THEN 0
                       ELSE tolerances.berm_width.min[1]
            IN  (~bd.is_ramp /\ ~bt.is_ramp) =>
                  rec.berm_status =
                    IF bt.berm_width = 0 /\ bd.berm_width = 0 THEN "CUMPLE"
                    ELSE IF bt.berm_width >= min THEN "CUMPLE"
                    ELSE IF 5 * bt.berm_width >= 4 * min
                         THEN "FUERA DE TOLERANCIA"
                    ELSE "NO CUMPLE"

\* C7 witness: a MATCH of two zero-width berms under a positive minimum,
\* beside a MATCH whose real width falls in [0.8 min, min).
C7_Witness ==
    /\ Compared
    /\ tolerances.berm_width.min # None
    /\ \E k \in RecordsOfType("MATCH") :
          /\ comparisons[k].bench_real[1].berm_width = 0
          /\ comparisons[k].bench_design[1].berm_width = 0
          /\ comparisons[k].berm_status = "CUMPLE"
    /\ \E k \in RecordsOfType("MATCH") :
          /\ ~comparisons[k].bench_design[1].is_ramp
          /\ comparisons[k].berm_status = "FUERA DE TOLERANCIA"

\* C8: the returned list is in descending order of the numeric value of
\* level, for positive, zero and negative toe elevations.
C8_SortedByNumericLevel ==
    Compared =>
        \A k \in 1..(Len(comparisons) - 1) :
            level_value(comparisons[k].level)
                >= level_value(comparisons[k + 1].level)

\* C9: both lists empty -> the empty list; exactly one list empty -> one
\* record per bench of the other list and no MATCH: every design bench
\* MISSING, or every as-built bench EXTRA.
C9_EmptySides ==
    Compared =>
        LET bd == params_design.benches
            bt == params_topo.benches
        IN  /\ (bd = << >> /\ bt = << >>) => comparisons = << >>
            /\ (bd # << >> /\ bt = << >>) =>
                  /\ Len(comparisons) = Len(bd)
                  /\ \A k \in 1..Len(comparisons) : comparisons[k].type = "MISSING"
                  /\ \A i \in 1..Len(bd) : HasRecord("MISSING", Some(bd[i]), None)
            /\ (bd = << >> /\ bt # << >>) =>
                  /\ Len(comparisons) = Len(bt)
                  /\ \A k \in 1..Len(comparisons) : comparisons[k].type = "EXTRA"
                  /\ \A j \in 1..Len(bt) : HasRecord("EXTRA", None, Some(bt[j]))

\* C9 witness: a call with no design bench and two as-built benches.
C9_Witness ==
    /\ Compared
    /\ params_design.benches = << >>
    /\ Len(params_topo.benches) >= 2
    /\ Len(comparisons) = Len(params_topo.benches)

-----------------------------------------------------------------------------
(* Properties of extract_parameters                                        *)

Extracted == ex_pc = "extracted"

\* flat berm, face, flat berm, face: four segments, the berms level and the
\* faces falling at no less than the face threshold
IsStaircase(points) ==
    /\ Len(points) = 5
    /\ \A i \in {1, 3} : seg_dy(points, i) = 0 /\ seg_dx(points, i) > 0
    /\ \A i \in {2, 4} :
          /\ seg_dy(points, i) < 0
          /\ abs_angle(seg_dy(points, i), seg_dx(points, i)) >= 4000

\* C1: for an ideal staircase (flat berm, face, flat berm of width W, face),
\* extract_parameters with the default configuration returns a bench whose
\* berm_width is W within 1.0 m and whose is_ramp is TRUE when 15 <= W <= 42.
C1_StaircaseRamp ==
    (Extracted /\ IsStaircase(ex_points) /\ ex_config = DefaultConfig) =>
        LET W == seg_dx(ex_points, 3)
            benches == ex_result[1].benches
        IN  \E i \in 1..Len(benches) :
                /\ Abs(benches[i].berm_width - W) < 2
                /\ (30 <= W /\ W <= 84) => benches[i].is_ramp

\* C13: the benches extract_parameters returns are in non-increasing order
\* of crest_elevation and the i-th of them has bench_number i, whatever the
\* merge and the large-berm filter removed.
C13_SortedAndNumbered ==
    Extracted =>
        LET benches == ex_result[1].benches
        IN  \A i \in 1..Len(benches) :
                /\ benches[i].bench_number = i
                /\ i < Len(benches) =>
                      benches[i].crest_elevation
                          >= benches[i + 1].crest_elevation

\* two benches of a rising profile: the higher one, found last, comes first
C13_Witness ==
    /\ Extracted
    /\ Len(ex_result[1].benches) >= 2
    /\ ex_result[1].benches[1].crest_distance
          > ex_result[1].benches[2].crest_distance
    /\ ex_result[1].benches[1].crest_elevation
          > ex_result[1].benches[2].crest_elevation

\* C14: every bench extract_parameters returns has is_ramp true exactly
\* when its final berm_width is in [15, 42], for every configuration.
C14_RampIffBermInRange ==
    Extracted =>
        \A i \in 1..Len(ex_result[1].benches) :
            ex_result[1].benches[i].is_ramp
                <=> in_ramp_range(ex_result[1].benches[i].berm_width)

-----------------------------------------------------------------------------
(* Properties of the two front ends                                        *)

\* the records of a list that belong to a section
SectionRecords(recs, name) == {k \in 1..Len(recs) : recs[k].section = name}

\* the sections the Streamlit step extracted parameters for
UiExtracted ==
    IF ui_pc = "results"
    THEN {i \in 1..Len(sections) : ui_params_d[i] # None}
    ELSE {}

\* the sections whose pass of process_all has run
ApiPassed ==
    IF api_pc \in {"processed", "failed"}
    THEN 1..Len(store_params_design)
    ELSE {}

\* C10 as stated: a section whose design or as-built bench list is empty, one
\* of them or both, has no comparison record, in the Streamlit step and after
\* POST /api/process alike.
C10_EmptySideGivesNoRecords ==
    /\ \A i \in UiExtracted :
          (ui_params_d[i][1].benches = << >> \/ ui_params_t[i][1].benches = << >>)
              => SectionRecords(ui_comparisons, sections[i].name) = {}
    /\ \A i \in ApiPassed :
          (store_params_design[i].benches = << >>
             \/ store_params_topo[i].benches = << >>)
              => SectionRecords(store_comparison_results, sections[i].name) = {}

\* C10, amended: in the Streamlit step a section with an empty design or
\* as-built bench list has no comparison record.  After POST /api/process a
\* section has no record when both lists are empty; with the design list
\* alone empty it has one EXTRA record for each as-built bench, and with the
\* as-built list alone empty one MISSING record for each design bench.
C10_EmptyListsPerFrontEnd ==
    /\ \A i \in UiExtracted :
          (ui_params_d[i][1].benches = << >> \/ ui_params_t[i][1].benches = << >>)
              => SectionRecords(ui_comparisons, sections[i].name) = {}
    /\ \A i \in ApiPassed :
          LET bd == store_params_design[i].benches
              bt == store_params_topo[i].benches
              recs == SectionRecords(store_comparison_results, sections[i].name)
          IN  /\ (bd = << >> /\ bt = << >>) => recs = {}
              /\ (bd = << >> /\ bt # << >>) =>
                    /\ Cardinality(recs) = Len(bt)
                    /\ \A k \in recs : store_comparison_results[k].type = "EXTRA"
              /\ (bd # << >> /\ bt = << >>) =>
                    /\ Cardinality(recs) = Len(bd)
                    /\ \A k \in recs : store_comparison_results[k].type = "MISSING"

\* both front ends have processed a section with benches on one side only:
\* the Streamlit step kept no record of it, the store holds its MISSING ones
C10_Witness ==
    /\ \E i \in UiExtracted :
          /\ ui_params_d[i][1].benches # << >>
          /\ ui_params_t[i][1].benches = << >>
          /\ SectionRecords(ui_comparisons, sections[i].name) = {}
    /\ api_pc = "processed"
    /\ \E i \in ApiPassed :
          /\ store_params_design[i].benches # << >>
          /\ store_params_topo[i].benches = << >>
          /\ SectionRecords(store_comparison_results, sections[i].name) # {}

\* C11: every bench extract_parameters returns has crest_elevation >=
\* toe_elevation, for rising and falling profiles, merged benches included.
C11_CrestNotBelowToe ==
    Extracted =>
        \A i \in 1..Len(ex_result[1].benches) :
            ex_result[1].benches[i].crest_elevation
                >= ex_result[1].benches[i].toe_elevation

\* a bench found on a rising face: its crest lies behind its toe along the
\* profile, so the two vertices were exchanged
C11_Witness ==
    /\ Extracted
    /\ \E i \in 1..Len(ex_result[1].benches) :
          /\ ex_result[1].benches[i].crest_distance
                > ex_result[1].benches[i].toe_distance
          /\ ex_result[1].benches[i].crest_elevation
                > ex_result[1].benches[i].toe_elevation

-----------------------------------------------------------------------------
(* Properties of the API session                                           *)

\* the benches of every section in the two parameter lists of the store
StoredBenches ==
    UNION { {store_params_design[i].benches[k] :
                k \in 1..Len(store_params_design[i].benches)}
            \cup {store_params_topo[i].benches[k] :
                k \in 1..Len(store_params_topo[i].benches)} :
            i \in 1..Len(store_params_topo) }

\* C12: in every state of the session, after process_all and any edits of
\* update_reconciled, every stored bench has crest_elevation >=
\* toe_elevation.
C12_StoredCrestNotBelowToe ==
    \A b \in StoredBenches : b.crest_elevation >= b.toe_elevation

\* the as-built benches of the section the last edit was applied to
EditedSection == store_params_topo[reconciled_edit[1].section].benches

\* C15: after an edit of update_reconciled every bench of the edited section
\* has is_ramp true exactly when its recomputed berm_width is in [15, 42].
C15_RampFlagFollowsEditedBerm ==
    reconciled_edit # None =>
        \A i \in 1..Len(EditedSection) :
            EditedSection[i].is_ramp
                <=> in_ramp_range(EditedSection[i].berm_width)

\* what process_all stored as the as-built benches of a section
ExtractedTopo(i) ==
    IF sections[i].design_profile # None /\ sections[i].topo_profile # None
    THEN extract_parameters(sections[i].topo_profile[1], sections[i].name,
                            sections[i].sector, store_settings).benches
    ELSE << >>

\* C20: after update_reconciled has applied its overrides, every bench of
\* the section has bench_height = |crest_elevation - toe_elevation|, every
\* edited bench has face_angle 90 when its crest and toe are at one distance
\* and atan2(|dz|, |dx|) otherwise, every bench but the last has berm_width =
\* |next.crest_distance - toe_distance|, and the benches are as many as were
\* extracted, with the bench numbers they had.
C20_DerivedScalarsConsistent ==
    reconciled_edit # None =>
        LET bs == EditedSection
            was == ExtractedTopo(reconciled_edit[1].section)
        IN  /\ Len(bs) = Len(was)
            /\ \A i \in 1..Len(bs) :
                  /\ bs[i].bench_number = was[i].bench_number
                  /\ bs[i].bench_height =
                        Abs(bs[i].crest_elevation - bs[i].toe_elevation)
            /\ \A i \in 1..reconciled_edit[1].edited :
                  bs[i].face_angle =
                      IF bs[i].toe_distance = bs[i].crest_distance THEN 9000
                      ELSE AtanDeg(
                             Abs(bs[i].crest_elevation - bs[i].toe_elevation),
                             Abs(bs[i].toe_distance - bs[i].crest_distance))
            /\ \A i \in 1..(Len(bs) - 1) :
                  bs[i].berm_width =
                      Abs(bs[i + 1].crest_distance - bs[i].toe_distance)

\* an edit that made the face of the first bench vertical and so changed the
\* berm between it and the second bench
C20_Witness ==
    /\ reconciled_edit # None
    /\ Len(EditedSection) = 2
    /\ reconciled_edit[1].edited >= 1
    /\ EditedSection[1].toe_distance = EditedSection[1].crest_distance
    /\ EditedSection[1].face_angle = 9000
    /\ EditedSection[1].berm_width
          # ExtractedTopo(reconciled_edit[1].section)[1].berm_width

-----------------------------------------------------------------------------
(* Properties of ramer_douglas_peucker                                     *)

Simplified == rdp_pc \in {"simplified", "twice"}

\* a is b with elements left out, the others in their order
RECURSIVE IsSubsequence(_, _)
IsSubsequence(a, b) ==
    IF a = << >> THEN TRUE
    ELSE IF b = << >> THEN FALSE
    ELSE IF Head(a) = Head(b) THEN IsSubsequence(Tail(a), Tail(b))
    ELSE IsSubsequence(a, Tail(b))

\* C16: for a polyline of one point or more and epsilon >= 0 the output is
\* a subsequence of the input that begins with its first point and ends with
\* its last; a polyline of fewer than three points is returned unchanged.
C16_SubsequenceWithEndpoints ==
    Simplified =>
        /\ IsSubsequence(rdp_out, rdp_points)
        /\ rdp_out = [k \in 1..Len(rdp_kept) |-> rdp_points[rdp_kept[k]]]
        /\ \A k \in 1..(Len(rdp_kept) - 1) : rdp_kept[k] < rdp_kept[k + 1]
        /\ Len(rdp_out) >= 1
        /\ rdp_out[1] = rdp_points[1]
        /\ rdp_out[Len(rdp_out)] = rdp_points[Len(rdp_points)]
        /\ Len(rdp_points) < 3 => rdp_out = rdp_points

\* a polyline that lost a point and kept an interior one
C16_Witness ==
    /\ Simplified
    /\ Len(rdp_out) < Len(rdp_points)
    /\ Len(rdp_out) > 2

\* C17: simplifying what was simplified, with the same epsilon, returns it.
C17_Idempotent == rdp_pc = "twice" => rdp_again = rdp_out

\* the second call was made on a polyline the first had shortened to three
\* vertices or more
C17_Witness ==
    /\ rdp_pc = "twice"
    /\ Len(rdp_out) >= 3
    /\ Len(rdp_out) < Len(rdp_points)
    /\ rdp_eps > 0

\* p is at no more than epsilon from the line through a and b, from a when
\* the two coincide (distances in half metres, eps20 in units of 0.05 m)
WithinEpsilon(p, a, b, eps20) ==
    LET lx == b[1] - a[1]
        ly == b[2] - a[2]
        px == p[1] - a[1]
        py == p[2] - a[2]
        cross == lx * py - ly * px
    IN  IF lx = 0 /\ ly = 0
        THEN 100 * (px * px + py * py) <= eps20 * eps20
        ELSE 100 * cross * cross <= eps20 * eps20 * (lx * lx + ly * ly)

\* between every two neighbours of the positions K, every point of the
\* polyline is within epsilon of their chord
KeepsWithinEpsilon(K) ==
    \A a \in K : \A b \in K :
        (a < b /\ \A c \in K : ~(a < c /\ c < b)) =>
            \A j \in (a + 1)..(b - 1) :
                WithinEpsilon(rdp_points[j], rdp_points[a], rdp_points[b],
                              rdp_eps)

KeptPositions == {rdp_kept[k] : k \in 1..Len(rdp_kept)}

\* C18: between every two consecutive kept vertices, every point of the
\* input is at perpendicular distance <= epsilon from their chord.
C18_DroppedWithinEpsilon == Simplified => KeepsWithinEpsilon(KeptPositions)

\* points were dropped between two kept vertices with epsilon above zero
C18_Witness ==
    /\ Simplified
    /\ rdp_eps > 0
    /\ Len(rdp_out) >= 3
    /\ \E k \in 1..(Len(rdp_kept) - 1) : rdp_kept[k + 1] > rdp_kept[k] + 1
    /\ \E j \in 1..Len(rdp_points) :
          /\ j \notin KeptPositions
          /\ \A k \in 1..Len(rdp_out) : rdp_out[k] # rdp_points[j]

\* the sets of positions that hold both ends and keep every point within
\* epsilon
ValidKeeps ==
    {K \in SUBSET (1..Len(rdp_points)) :
        /\ 1 \in K
        /\ Len(rdp_points) \in K
        /\ KeepsWithinEpsilon(K)}

\* C19 as stated: no subsequence with fewer vertices holds both ends and
\* keeps every point within epsilon.
C19_Minimal ==
    Simplified =>
        \A K \in ValidKeeps : Cardinality(K) >= Len(rdp_kept)

\* C19, amended: the output is that of the farthest-point recursion.  Every
\* kept interior vertex is, for two kept vertices around it, the first point
\* of maximal distance from their chord, and that distance exceeds epsilon;
\* an output of three vertices or fewer has the fewest vertices possible.
C19_GreedyKeeps ==
    Simplified =>
        /\ \A q \in KeptPositions \ {1, Len(rdp_points)} :
              \E i \in KeptPositions : \E j \in KeptPositions :
                  /\ i < q /\ q < j
                  /\ rdp_index(SubSeq(rdp_points, i, j)) = q - i + 1
                  /\ ~WithinEpsilon(rdp_points[q], rdp_points[i],
                                    rdp_points[j], rdp_eps)
        /\ Len(rdp_kept) <= 3 =>
              \A K \in ValidKeeps : Cardinality(K) >= Len(rdp_kept)

\* four vertices were kept where three would do
C19_Witness ==
    /\ Simplified
    /\ Len(rdp_kept) = 4
    /\ \E K \in ValidKeeps : Cardinality(K) = 3


-----------------------------------------------------------------------------
(* Properties of the thread pool of _run_parallel_analysis                 *)

\* the results dict of a sequential run over the sections: every list it can
\* hold, one for each outcome of the solver
SequentialResults ==
    { [profiles_design |-> [i \in 1..Len(f) |-> sections[i].design_profile],
       profiles_topo |-> [i \in 1..Len(f) |-> sections[i].topo_profile],
       params_design |-> [i \in 1..Len(f) |-> f[i].ep_d],
       params_topo |-> [i \in 1..Len(f) |-> f[i].ep_t],
       comparisons |-> Flatten([i \in 1..Len(f) |-> f[i].comp])] :
      f \in process_singles(sections, Len(sections), SidebarConfig,
                            SidebarTolerances) }

\* slot i holds nothing, or what the task of section i returned
SlotOfOwnSection(i) ==
    LET done == ui_futures[i].state = "done"
        r == ui_futures[i].result[1]
    IN  /\ ui_profiles_d[i] # None => done /\ ui_profiles_d[i] = r.pd_prof
        /\ ui_profiles_t[i] # None => done /\ ui_profiles_t[i] = r.pt_prof
        /\ ui_params_d[i] # None =>
              /\ done /\ r.i = i /\ ui_params_d[i] = r.ep_d
              /\ ui_params_d[i][1].section_name = sections[i].name
        /\ ui_params_t[i] # None =>
              /\ done /\ r.i = i /\ ui_params_t[i] = r.ep_t
              /\ ui_params_t[i][1].section_name = sections[i].name

\* C21: in _run_parallel_analysis, whatever the order in which the worker
\* tasks start and finish, every slot of profiles_design, profiles_topo,
\* params_design and params_topo holds None or the result of its own
\* section, and after the run the four lists and the comparison records,
\* concatenated by increasing section index, are those of a sequential run
C21_ParallelEqualsSequential ==
    /\ ui_pc \in {"mapping", "results"} =>
          \A i \in 1..Len(sections) : SlotOfOwnSection(i)
    /\ ui_pc = "results" =>
          [profiles_design |-> ui_profiles_d, profiles_topo |-> ui_profiles_t,
           params_design |-> ui_params_d, params_topo |-> ui_params_t,
           comparisons |-> ui_comparisons] \in SequentialResults

\* a run over two sections that both give records, in which the task of the
\* second section finished before the task of the first
C21_Witness ==
    /\ ui_pc = "results"
    /\ ui_finished = <<2, 1>>
    /\ ui_order = <<1, 2>>
    /\ \A i \in 1..2 : ui_futures[i].result[1].comp # << >>
    /\ ui_comparisons[1].section = "S1"
    /\ ui_comparisons[Len(ui_comparisons)].section = "S2"

-----------------------------------------------------------------------------
(* Properties of extract_parameters: the cases without benches             *)

\* the polyline ramer_douglas_peucker leaves of the drawn profile
SimplifiedProfile == ramer_douglas_peucker(ex_points, epsilon20(ex_config))

\* is_steep of the segments of that polyline
SteepSegments ==
    is_steep(segment_angles(SimplifiedProfile), ex_config.face_threshold)

\* fewer than 3 points, or fewer than 3 vertices after simplification, or
\* only degenerate segments, or no crest or no toe
NothingToPair ==
    \/ Len(ex_points) < 3
    \/ Len(SimplifiedProfile) < 3
    \/ \A i \in 1..(Len(SimplifiedProfile) - 1) :
          ~valid_seg(SimplifiedProfile, i)
    \/ crest_vertices(SteepSegments) = << >>
    \/ toe_vertices(SteepSegments) = << >>

\* C22: extract_parameters returns an ExtractionResult with zero benches and
\* overall_angle = inter_ramp_angle = 0 when the profile has fewer than 3
\* points, when the simplified polyline has fewer than 3 vertices, when every
\* segment is degenerate, or when no crest or no toe is found
C22_EmptyResultWithoutFaces ==
    Extracted /\ NothingToPair =>
        /\ ex_result[1].benches = << >>
        /\ ex_result[1].overall_angle = 0
        /\ ex_result[1].inter_ramp_angle = 0

\* no crest and no toe exactly when no segment is classified steep
C22_NoCrestIffNoSteep ==
    Extracted /\ Len(ex_points) >= 3 /\ Len(SimplifiedProfile) >= 3 =>
        /\ crest_vertices(SteepSegments) = << >>
              <=> \A i \in 1..Len(SteepSegments) : ~SteepSegments[i]
        /\ toe_vertices(SteepSegments) = << >>
              <=> \A i \in 1..Len(SteepSegments) : ~SteepSegments[i]

\* a profile of three vertices or more after simplification, one of its
\* segments steeper than the threshold before smoothing, in which no segment
\* is classified steep
C22_Witness ==
    /\ Extracted
    /\ Len(SimplifiedProfile) >= 3
    /\ \E i \in 1..(Len(SimplifiedProfile) - 1) :
          segment_angles(SimplifiedProfile)[i] >= ex_config.face_threshold
    /\ crest_vertices(SteepSegments) = << >>
    /\ ex_result[1].benches = << >>
    /\ ex_result[1].overall_angle = 0

-----------------------------------------------------------------------------
(* Properties of extract_parameters: crests, toes and their pairing        *)

\* the maximal runs of steep segments, each as <<first, last>> segment
SteepRuns(steep) ==
    { r \in (1..Len(steep)) \X (1..Len(steep)) :
        /\ r[1] <= r[2]
        /\ \A i \in r[1]..r[2] : steep[i]
        /\ r[1] > 1 => ~steep[r[1] - 1]
        /\ r[2] < Len(steep) => ~steep[r[2] + 1] }

SeqRange(s) == {s[i] : i \in 1..Len(s)}

StrictlyIncreasing(s) == \A i \in 1..(Len(s) - 1) : s[i] < s[i + 1]

\* the candidates the pairing loop formed on the drawn profile
ProfileCandidates ==
    candidate_pairs(SimplifiedProfile, crest_vertices(SteepSegments),
                    toe_vertices(SteepSegments), 1, 1, << >>)

\* C23: the crest and toe lists hold one crest (the start vertex) and one
\* toe (the end vertex) for each maximal run of steep segments, are strictly
\* increasing, of equal length and interleaved; the pairing loop pairs the
\* k-th crest with the k-th toe, whether or not earlier candidates were
\* rejected for their height or face length
C23_CrestsAndToesInterleave ==
    Extracted /\ Len(ex_points) >= 3 /\ Len(SimplifiedProfile) >= 3 =>
        LET crests == crest_vertices(SteepSegments)
            toes == toe_vertices(SteepSegments)
            runs == SteepRuns(SteepSegments)
        IN  /\ SeqRange(crests) = {r[1] : r \in runs}
            /\ SeqRange(toes) = {r[2] + 1 : r \in runs}
            /\ Len(crests) = Cardinality(runs)
            /\ Len(toes) = Len(crests)
            /\ StrictlyIncreasing(crests)
            /\ StrictlyIncreasing(toes)
            /\ \A k \in 1..Len(crests) :
                  /\ crests[k] < toes[k]
                  /\ k < Len(crests) => toes[k] < crests[k + 1]
            /\ Len(ProfileCandidates) = Len(crests)
            /\ \A k \in 1..Len(ProfileCandidates) :
                  /\ ProfileCandidates[k].crest_idx = k
                  /\ ProfileCandidates[k].toe_idx = k
                  /\ ProfileCandidates[k].c_vertex = crests[k]
                  /\ ProfileCandidates[k].t_vertex = toes[k]

\* the benches the loop appends are its candidates that were not rejected
C23_BenchesAreAcceptedCandidates ==
    Extracted /\ Len(ex_points) >= 3 /\ Len(SimplifiedProfile) >= 3 =>
        Len(build_benches(SimplifiedProfile, crest_vertices(SteepSegments),
                          toe_vertices(SteepSegments),
                          ex_config.face_threshold, 1, 1, << >>))
          = Len(SelectSeq(ProfileCandidates, LAMBDA c : ~c.rejected))

\* a profile that starts and ends on a steep segment and has two runs of
\* steep segments: the candidate of the first was rejected, that of the
\* second became a bench
C23_Witness ==
    /\ Extracted
    /\ Len(SimplifiedProfile) >= 3
    /\ SteepSegments[1]
    /\ SteepSegments[Len(SteepSegments)]
    /\ Len(ProfileCandidates) = 2
    /\ ProfileCandidates[1].rejected
    /\ ~ProfileCandidates[2].rejected
    /\ Len(ex_result[1].benches) = 1

-----------------------------------------------------------------------------
(* Properties of extract_parameters: the berm filter and the merge pass    *)

\* a profile that reaches the pairing loop
ReachesPairing ==
    /\ Extracted
    /\ Len(ex_points) >= 3
    /\ Len(SimplifiedProfile) >= 3

\* benches after the pairing loop, in profile order
PairedBenches ==
    build_benches(SimplifiedProfile, crest_vertices(SteepSegments),
                  toe_vertices(SteepSegments), ex_config.face_threshold,
                  1, 1, << >>)

\* benches after the merge pass, in profile order
MergedBenches == merge_micro_benches(PairedBenches)

\* benches after the sort by elevation
SortedBenches == Renumber(sort_by_crest(MergedBenches))

\* where a bench lies
Position(b) ==
    <<b.crest_elevation, b.crest_distance, b.toe_elevation, b.toe_distance>>

\* |upper.toe_distance - lower.crest_distance| of benches i and i + 1
GapAfter(benches, i) ==
    Abs(benches[i].toe_distance - benches[i + 1].crest_distance)

\* benches a..b of the sorted list, no gap between two of them wider than
\* max_berm_width
UnbrokenRun(a, b) ==
    /\ a <= b
    /\ \A i \in a..(b - 1) :
          GapAfter(SortedBenches, i) <= ex_config.max_berm_width

\* C24: with max_berm_width > 0, the benches extract_parameters returns are
\* a longest contiguous run of the elevation-sorted bench list in which no
\* gap |upper.toe_distance - lower.crest_distance| exceeds max_berm_width,
\* and every returned bench but the last has berm_width equal to the gap to
\* the next returned bench, which is <= max_berm_width
C24_LongestUnbrokenRun ==
    ReachesPairing /\ ex_config.max_berm_width > 0 =>
        LET benches == ex_result[1].benches
            n == Len(SortedBenches)
        IN  /\ n = 0 => benches = << >>
            /\ n > 0 =>
                 \E a \in 1..n : \E b \in a..n :
                    /\ UnbrokenRun(a, b)
                    /\ Len(benches) = b - a + 1
                    /\ \A k \in 1..Len(benches) :
                          Position(benches[k]) = Position(SortedBenches[a + k - 1])
                    /\ \A c \in 1..n : \A d \in c..n :
                          UnbrokenRun(c, d) => d - c <= b - a
            /\ \A k \in 1..(Len(benches) - 1) :
                  /\ benches[k].berm_width = GapAfter(benches, k)
                  /\ benches[k].berm_width <= ex_config.max_berm_width

\* a wall of three benches whose first berm is wider than max_berm_width:
\* the two benches below it are returned, with the berm between them
C24_Witness ==
    /\ ReachesPairing
    /\ ex_config.max_berm_width > 0
    /\ Len(SortedBenches) = 3
    /\ GapAfter(SortedBenches, 1) > ex_config.max_berm_width
    /\ Len(ex_result[1].benches) = 2
    /\ Position(ex_result[1].benches[1]) = Position(SortedBenches[2])
    /\ ex_result[1].benches[1].berm_width > 0

\* the merge criterion: the elevation gap between the toe of the first and
\* the crest of the second below 2.0 m, and one of the heights below 3.0 m
MergeCriterion(pred, succ) ==
    /\ Abs(pred.toe_elevation - succ.crest_elevation) < 4
    /\ (pred.bench_height < 6 \/ succ.bench_height < 6)

\* the constituents of every bench of the merged list
Constituents ==
    IF Len(PairedBenches) > 1
    THEN merge_groups(<< {1} >>, << PairedBenches[1] >>, PairedBenches, 2)
    ELSE [i \in 1..Len(PairedBenches) |-> {i}]

\* C25: after the merge pass no two adjacent benches of the merged list
\* satisfy the merge criterion, and every bench of the merged list has the
\* maximum crest elevation and the minimum toe elevation of its constituents
\* and bench_height = crest_elevation - toe_elevation
C25_MergePassComplete ==
    ReachesPairing =>
        /\ \A j \in 1..(Len(MergedBenches) - 1) :
              ~MergeCriterion(MergedBenches[j], MergedBenches[j + 1])
        /\ Len(Constituents) = Len(MergedBenches)
        /\ UNION {Constituents[j] : j \in 1..Len(Constituents)}
              = 1..Len(PairedBenches)
        /\ \A j \in 1..Len(MergedBenches) :
              LET m == MergedBenches[j]
                  cs == {PairedBenches[i] : i \in Constituents[j]}
              IN  /\ \E c \in cs : m.crest_elevation = c.crest_elevation
                  /\ \A c \in cs : m.crest_elevation >= c.crest_elevation
                  /\ \E c \in cs : m.toe_elevation = c.toe_elevation
                  /\ \A c \in cs : m.toe_elevation <= c.toe_elevation
                  /\ m.bench_height = m.crest_elevation - m.toe_elevation

\* three faces of which the first two were merged into one bench and the
\* third was kept apart
C25_Witness ==
    /\ ReachesPairing
    /\ Len(PairedBenches) = 3
    /\ Len(MergedBenches) = 2
    /\ Constituents[1] = {1, 2}
    /\ MergedBenches[1].toe_elevation = PairedBenches[2].toe_elevation
    /\ MergedBenches[1].toe_elevation < PairedBenches[1].toe_elevation
    /\ Len(ex_result[1].benches) >= 1

-----------------------------------------------------------------------------
(* Properties of compare_design_vs_asbuilt: the records and the benches    *)

\* the records that refer to design bench i, and to as-built bench j
RecordsOfDesign(i) ==
    {k \in 1..Len(comparisons) :
        comparisons[k].bench_design = Some(params_design.benches[i])}

RecordsOfTopo(j) ==
    {k \in 1..Len(comparisons) :
        comparisons[k].bench_real = Some(params_topo.benches[j])}

\* C26: the records compare_design_vs_asbuilt returns partition the benches:
\* every design bench is referred to by exactly one record, a MATCH or a
\* MISSING; every as-built bench by exactly one record, a MATCH or an EXTRA;
\* no bench is in two MATCH records; and there are n_design + n_asbuilt
\* minus the number of MATCH records
C26_RecordsPartitionBenches ==
    Compared =>
        /\ \A i \in 1..Len(params_design.benches) :
              /\ Cardinality(RecordsOfDesign(i)) = 1
              /\ \A k \in RecordsOfDesign(i) :
                    comparisons[k].type \in {"MATCH", "MISSING"}
        /\ \A j \in 1..Len(params_topo.benches) :
              /\ Cardinality(RecordsOfTopo(j)) = 1
              /\ \A k \in RecordsOfTopo(j) :
                    comparisons[k].type \in {"MATCH", "EXTRA"}
        /\ \A k \in 1..Len(comparisons) :
              /\ comparisons[k].type \in {"MATCH", "MISSING", "EXTRA"}
              /\ comparisons[k].type = "MISSING" =>
                    comparisons[k].bench_real = None
              /\ comparisons[k].type = "EXTRA" =>
                    comparisons[k].bench_design = None
        /\ Len(comparisons) =
              Len(params_design.benches) + Len(params_topo.benches)
                - Cardinality(RecordsOfType("MATCH"))

\* two design benches and two as-built benches in three records: a MATCH, a
\* MISSING and an EXTRA
C26_Witness ==
    /\ Compared
    /\ Len(params_design.benches) = 2
    /\ Len(params_topo.benches) = 2
    /\ Len(comparisons) = 3
    /\ Cardinality(RecordsOfType("MATCH")) = 1
    /\ Cardinality(RecordsOfType("MISSING")) = 1
    /\ Cardinality(RecordsOfType("EXTRA")) = 1

\* C27: compare_design_vs_asbuilt never leaves a matchable pair unmatched: no
\* returned list holds a MISSING record of a design bench and an EXTRA record
\* of an as-built bench whose midpoint elevations differ by less than 8.0 m
C27_NoMatchablePairUnmatched ==
    Compared =>
        \A k \in RecordsOfType("MISSING") : \A l \in RecordsOfType("EXTRA") :
            Abs(midpoint2(comparisons[k].bench_design[1])
                  - midpoint2(comparisons[l].bench_real[1])) >= 32

-----------------------------------------------------------------------------
(* Properties of the API store under all its operations                    *)

\* the records of a list that carry the name and the sector of a section
RecordsOfSection(recs, sec) ==
    SelectSeq(recs, LAMBDA c : c.section = sec.name /\ c.sector = sec.sector)

\* a step of update_reconciled: it leaves an edit on record, and neither
\* the sections nor the tolerances nor the settings are replaced
EditStep ==
    /\ reconciled_edit' # None
    /\ UNCHANGED <<sections, store_tolerances, store_settings>>

\* the records of every section but the edited one are as before and in
\* the same order; those of the edited section are what the comparator
\* returns for its design result and its edited as-built result
EditFrame ==
    LET k == reconciled_edit'[1].section
        p_design == store_params_design[k]
        p_topo == store_params_topo'[k]
    IN  /\ \A j \in (1..Len(sections)) \ {k} :
              RecordsOfSection(store_comparison_results', sections[j])
                = RecordsOfSection(store_comparison_results, sections[j])
        /\ k <= Len(sections) =>
              \E A \in solver_outcomes(p_design, p_topo) :
                 \/ compare_raises(p_design, p_topo, store_tolerances, A)
                 \/ RecordsOfSection(store_comparison_results', sections[k])
                      = compare_design_vs_asbuilt(p_design, p_topo,
                                                  store_tolerances, A)

\* C28: update_reconciled on section k replaces exactly the comparison
\* records of section k: the records of every other section are the same as
\* before and in the same relative order, and the records of section k are
\* those of compare_design_vs_asbuilt on its design result and its edited
\* as-built result, for any loaded section list, two sections of one name
\* included
C28_ReplacesOnlyEditedSection == [][EditStep => EditFrame]_vars


\* the stored results of index i are those of section i
AlignedAt(i) ==
    /\ store_params_design[i].section_name = sections[i].name
    /\ store_params_topo[i].section_name = sections[i].name

\* C29: in every state reachable by load_sections, update_settings,
\* update_tolerances, process_all and update_reconciled, params_design and
\* params_topo have equal length and, when non-empty, are index-aligned with
\* the sections: same length, and the results of index i carry the name of
\* section i
C29_ParamsAlignedWithSections ==
    /\ Len(store_params_design) = Len(store_params_topo)
    /\ store_params_design # << >> =>
          /\ Len(store_params_design) = Len(sections)
          /\ \A i \in 1..Len(sections) : AlignedAt(i)

\* the part of C29 that concerns the two result lists alone
C29_ParamsOfEqualLength == Len(store_params_design) = Len(store_params_topo)

-----------------------------------------------------------------------------
(* calculate_area_between_profiles. A profile is the sequence of its       *)
(* (distance, elevation) points in half metres, or None. The common grid   *)
(* is in steps of 0.1 m, an interpolated elevation is a multiple of 1/60   *)
(* of a half metre, and an area a multiple of that over one grid step.     *)

\* grid steps of 0.1 m in a half metre (np.arange(min_d, max_d, 0.1))
GridPerUnit == 5

\* an interpolated elevation is held as a multiple of 1/InterpScale of a
\* half metre: exact for segments of 1, 2, 3 and 4 half metres
InterpScale == 60

distances_of(profile) == [i \in 1..Len(profile) |-> profile[i][1]]

\* d.min() and d.max()
min_of(d) == CHOOSE x \in {d[i] : i \in 1..Len(d)} : \A j \in 1..Len(d) : x <= d[j]

max_of(d) == CHOOSE x \in {d[i] : i \in 1..Len(d)} : \A j \in 1..Len(d) : x >= d[j]

\* np.arange(min_d, max_d, 0.1), in steps of the grid
arange(min_d, max_d) ==
    [k \in 1..(GridPerUnit * (max_d - min_d)) |-> GridPerUnit * min_d + (k - 1)]

\* interp1d(d, z, kind='linear') at the grid position g, which lies within
\* the range of d: the value on the first segment that holds g
interp1d(profile, g) ==
    LET i == CHOOSE k \in 1..(Len(profile) - 1) :
                 /\ GridPerUnit * profile[k][1] <= g
                 /\ g <= GridPerUnit * profile[k + 1][1]
                 /\ \A j \in 1..(k - 1) : g > GridPerUnit * profile[j + 1][1]
        d1 == profile[i][1]
        d2 == profile[i + 1][1]
        z1 == profile[i][2]
        z2 == profile[i + 1][2]
    IN  InterpScale * z1
          + ((z2 - z1) * (g - GridPerUnit * d1) * InterpScale)
              \div (GridPerUnit * (d2 - d1))

\* the return statement of the three early exits, as written
area_early_return == <<0, 0>>

calculate_area_between_profiles(p_ref, p_eval) ==
    IF p_ref = None \/ p_eval = None THEN area_early_return
    ELSE IF Len(p_ref[1]) < 2 \/ Len(p_eval[1]) < 2 THEN area_early_return
    ELSE
      LET d_ref == distances_of(p_ref[1])
          d_eval == distances_of(p_eval[1])
          lo_ref == min_of(d_ref)
          lo_eval == min_of(d_eval)
          hi_ref == max_of(d_ref)
          hi_eval == max_of(d_eval)
          min_d == IF lo_ref >= lo_eval THEN lo_ref ELSE lo_eval
          max_d == Min2(hi_ref, hi_eval)
      IN  IF max_d <= min_d THEN area_early_return
          ELSE
            LET common_d == arange(min_d, max_d)
                z_ref_interp ==
                    [k \in 1..Len(common_d) |-> interp1d(p_ref[1], common_d[k])]
                z_eval_interp ==
                    [k \in 1..Len(common_d) |-> interp1d(p_eval[1], common_d[k])]
                diff == [k \in 1..Len(common_d) |->
                            z_eval_interp[k] - z_ref_interp[k]]
                area_under ==
                    SumSeq([k \in 1..Len(diff) |->
                              IF diff[k] > 0 THEN diff[k] ELSE 0])
                area_over ==
                    SumSeq([k \in 1..Len(diff) |->
                              IF diff[k] < 0 THEN -diff[k] ELSE 0])
            IN  <<area_over, area_under, common_d, z_ref_interp,
                  z_eval_interp>>

\* the profiles a call is drawn from: None, no point, one point, and
\* profiles of two and three points over [0, 1 m], [0, 2 m], [0.5 m, 2 m],
\* [1 m, 2 m] and [1.5 m, 2 m]
AreaProfileSet ==
    { None,
      Some(<< >>),
      Some(<< <<0, 200>> >>),
      Some(<< <<0, 200>>, <<2, 200>> >>),
      Some(<< <<0, 202>>, <<1, 202>>, <<2, 198>> >>),
      Some(<< <<0, 198>>, <<4, 202>> >>),
      Some(<< <<0, 201>>, <<2, 201>>, <<4, 199>> >>),
      Some(<< <<1, 200>>, <<4, 203>> >>),
      Some(<< <<2, 200>>, <<4, 200>> >>),
      Some(<< <<2, 199>>, <<3, 201>>, <<4, 199>> >>),
      Some(<< <<3, 200>>, <<4, 198>> >>) }

InitArea ==
    /\ area_pc = "start"
    /\ profile_ref \in AreaProfileSet
    /\ profile_eval \in AreaProfileSet
    /\ area_result = << >>
    /\ sections = << >>
    /\ store_tolerances = None
    /\ store_settings = DefaultConfig
    /\ store_params_design = << >>
    /\ store_params_topo = << >>
    /\ store_comparison_results = << >>
    /\ api_pc = "idle"
    /\ reconciled_edit = None
    /\ requests_left = None
    /\ ui_params_d = << >>
    /\ ui_params_t = << >>
    /\ ui_comparisons = << >>
    /\ ui_pc = "idle"
    /\ ParallelIdle
    /\ CompareIdle
    /\ ExtractIdle

\* calculate_area_between_profiles(profile_ref, profile_eval) returns
CalculateAreaBetweenProfiles ==
    /\ area_pc = "start"
    /\ area_result' = calculate_area_between_profiles(profile_ref, profile_eval)
    /\ area_pc' = "returned"
    /\ UNCHANGED <<profile_ref, profile_eval>>
    /\ UNCHANGED <<ui_params_d, ui_params_t, ui_comparisons, ui_pc, parVars>>
    /\ UNCHANGED <<sections, apiVars, cmpVars, extVars>>

\* a_over, a_under, d_i, z_ref_i, z_eval_i = <the tuple returned>: the
\* assignment of the callers, which raises ValueError unless the tuple has
\* five values
UnpackFiveValues ==
    /\ area_pc = "returned"
    /\ area_pc' = IF Len(area_result) = 5 THEN "unpacked" ELSE "raised"
    /\ UNCHANGED <<profile_ref, profile_eval, area_result>>
    /\ UNCHANGED <<ui_params_d, ui_params_t, ui_comparisons, ui_pc, parVars>>
    /\ UNCHANGED <<sections, apiVars, cmpVars, extVars>>

NextArea ==
    \/ CalculateAreaBetweenProfiles
    \/ UnpackFiveValues

SpecArea == InitArea /\ [][NextArea]_vars

-----------------------------------------------------------------------------
(* Properties of calculate_area_between_profiles                           *)

AreaReturned == area_pc \in {"returned", "unpacked", "raised"}

\* profiles of two points or more whose distance ranges overlap over more
\* than a point
ProfilesOverlap ==
    /\ profile_ref # None /\ profile_eval # None
    /\ Len(profile_ref[1]) >= 2 /\ Len(profile_eval[1]) >= 2
    /\ Min2(max_of(distances_of(profile_ref[1])),
            max_of(distances_of(profile_eval[1])))
         > -Min2(-min_of(distances_of(profile_ref[1])),
                 -min_of(distances_of(profile_eval[1])))

\* C30: calculate_area_between_profiles returns a result of the same shape
\* on every path: for every input, a None profile, a profile of fewer than 2
\* points and profiles whose distance ranges do not overlap included, the
\* result can be unpacked as the five values (area_over, area_under,
\* common_d, z_ref_interp, z_eval_interp) its callers unpack
C30_FiveValuesOnEveryPath == AreaReturned => Len(area_result) = 5

\* the five values are returned to every call that reaches the last line
C30_FiveValuesWhenOverlapping ==
    (AreaReturned /\ ProfilesOverlap) =>
        /\ Len(area_result) = 5
        /\ Len(area_result[3]) = Len(area_result[4])
        /\ Len(area_result[3]) = Len(area_result[5])

\* the caller's assignment raises exactly on a call that left early
C30_RaisesIffLeftEarly ==
    area_pc \in {"unpacked", "raised"} =>
        (area_pc = "raised" <=> ~ProfilesOverlap)

=============================================================================
